---- MODULE Spec2Model ----
(***************************************************************************)
(* A model of gh-deployment-report/generate_github_deployment_report.py:   *)
(* the rate-limited GET helper, the paginated fetchers, the deployment /   *)
(* workflow-run correlation, the status extractor and the row assembly of  *)
(* main; and of the aggregation of copilot-usage-metrics/                  *)
(* copilot_usage_metrics.py.                                               *)
(*                                                                         *)
(* The specifications that share the module:                               *)
(*   SpecMatch    match_deployments_to_workflow_run on bounded inputs      *)
(*   SpecExtract  extract_approval_info on bounded status sequences        *)
(*   SpecApi      one call of github_api_get against a nondeterministic    *)
(*                server and a clock                                       *)
(*   SpecPages    two calls in a row of one paginated fetcher against a    *)
(*                finite chain of pages                                    *)
(*   Spec         main with REPOSITORY set to a repository name, against a *)
(*                nondeterministic server                                  *)
(*   SpecQualified                                                         *)
(*                the same with REPOSITORY set to <org>/<repo>             *)
(*   SpecOrg      main with REPOSITORY unset: list_org_repos and the loop  *)
(*                over its repositories                                    *)
(*   SpecAggregate                                                         *)
(*                aggregate_metrics_by_feature and                         *)
(*                aggregate_metrics_by_language_feature on bounded records *)
(*   SpecRate     calculate_acceptance_rate and                            *)
(*                calculate_loc_acceptance_rate on bounded counts          *)
(* SpecApiFair and SpecPagesFair are SpecApi and SpecPages under weak      *)
(* fairness of their steps, for the properties of termination.             *)
(***************************************************************************)
EXTENDS Integers, Sequences, FiniteSets, TLC

VARIABLES
    \* ---- SpecMatch: one call of match_deployments_to_workflow_run
    m_pc, m_run, m_deps, m_matched,
    \* ---- SpecExtract: extract_approval_info called on a status sequence,
    \* and called again on the same sequence
    e_pc, e_statuses, e_result,
    e_call,      \* which call this is, 1 or 2
    e_given,     \* the sequence as it was before the first call
    e_first,     \* what the first call returned
    \* ---- SpecApi: one call of github_api_get
    a_pc,        \* where the call is: loop, sleep_rate, sleep_err, returned, raised
    a_attempt,   \* the for loop's attempt
    a_now,       \* time.time(), whole seconds
    a_sleep_for, \* the argument of the pending time.sleep
    a_result,    \* what the call returned
    a_log,       \* the requests issued and the sleeps taken, in order
    \* ---- SpecPages: calls of one paginated fetcher
    p_fn,        \* the fetcher: list_org_repos, list_workflow_runs, ...
    p_chain,     \* the pages the server holds, each linking to the next
    p_pc,        \* where the call is: call, loop, returned, raised
    p_call,      \* which call this is, 1 or 2
    p_url,       \* the page url points at, 0 for None
    p_params,    \* whether params is still the dict of the first request
    p_list,      \* the list the call is building
    p_requests,  \* the requests the call has issued, in order
    p_results,   \* what the calls so far returned
    \* ---- SpecAggregate: one call of an aggregation of the usage metrics
    g_fn,        \* aggregate_metrics_by_feature or ..._by_language_feature
    g_pc, g_records, g_result,
    \* ---- SpecRate: one call of a rate calculation
    r_fn,        \* calculate_acceptance_rate or calculate_loc_acceptance_rate
    r_pc,        \* call, returned, raised
    r_num,       \* accepted / added
    r_den,       \* generated / suggested
    r_result,
    \* ---- Spec: main
    REPOSITORY,          \* os.getenv('REPOSITORY'), "" when unset
    pc,                  \* where main is
    repos, repo_i,       \* the repositories and the index of the current one
    workflow_runs, run_i,\* the runs of the current repository, the current one
    deployments,         \* the deployments of the current repository
    approved_by, approval_comment,   \* of the current run
    matched_deployments, dep_i,      \* of the current run, the current one
    report_rows,
    csv_file,            \* deployment_report.csv
    fetched, page,       \* the list and the page of the list_* call in progress
    \* ---- Spec: what the server saw and served (history, not program state)
    issued,              \* the requests issued: endpoint and the function used
    runs_served,         \* the workflow runs served so far, over all repositories
    deps_served,         \* the deployments served so far, over all repositories
    rows_before_run,     \* Len(report_rows) when the current run began
    dep_trace,           \* the requests made for the current deployment
    env_served,          \* the environment served for the current deployment
    statuses_served,     \* the statuses served for it, all pages in order
    resolution,          \* how the last row's deployment status came about
    reviews_status,      \* the status code the approvals endpoint answered
    review_states,       \* the states of the review records it served
    failed_fetch,        \* the response that made the last fetch raise
    runs_listed,         \* the ids of the runs the pages of the current
                         \* repository returned, in the order returned
    deps_listed,         \* the same for its deployments
    row_trace            \* for each row, where its run and its deployment stand
                         \* in what the server returned

matchVars   == <<m_pc, m_run, m_deps, m_matched>>
extractVars == <<e_pc, e_statuses, e_result, e_call, e_given, e_first>>
apiVars     == <<a_pc, a_attempt, a_now, a_sleep_for, a_result, a_log>>
progVars    == <<REPOSITORY, pc, repos, repo_i, workflow_runs, run_i,
                 deployments, approved_by, approval_comment,
                 matched_deployments, dep_i, report_rows, csv_file,
                 fetched, page>>
histVars    == <<issued, runs_served, deps_served, rows_before_run,
                 dep_trace, env_served, statuses_served, resolution,
                 reviews_status, review_states, failed_fetch,
                 runs_listed, deps_listed, row_trace>>
mainVars    == <<progVars, histVars>>
pagesVars   == <<p_fn, p_chain, p_pc, p_call, p_url, p_params, p_list,
                 p_requests, p_results>>
aggVars     == <<g_fn, g_pc, g_records, g_result>>
rateVars    == <<r_fn, r_pc, r_num, r_den, r_result>>
vars        == <<matchVars, extractVars, apiVars, pagesVars, aggVars, rateVars,
                 mainVars>>

\* What the actions of one part leave alone.
notMatch    == <<extractVars, apiVars, pagesVars, aggVars, mainVars,
                 rateVars>>
notExtract  == <<matchVars, apiVars, pagesVars, aggVars, mainVars,
                 rateVars>>
notApi      == <<matchVars, extractVars, pagesVars, aggVars, mainVars,
                 rateVars>>
notPages    == <<matchVars, extractVars, apiVars, aggVars, mainVars,
                 rateVars>>
notAgg      == <<matchVars, extractVars, apiVars, pagesVars, mainVars,
                 rateVars>>
notMain     == <<matchVars, extractVars, apiVars, pagesVars, aggVars,
                 rateVars>>
notRate     == <<matchVars, extractVars, apiVars, pagesVars, aggVars, mainVars>>

-----------------------------------------------------------------------------
(* Values shared by all parts *)

\* Python's None, also the value dict.get gives for an absent key: None where
\* a string is expected, NoneTs where a timestamp string is expected.
None == "None"

NoneTs == << >>

Max(a, b) == IF a >= b THEN a ELSE b

\* abs() of a number of seconds.
abs(x) == IF x < 0 THEN 0 - x ELSE x

\* A timestamp string 'YYYY-MM-DDTHH:MM:SSZ' of one fixed day is the triple
\* <<HH, MM, SS>> of its fields.  strptime turns it into seconds (the
\* datetime), strftime is the server's formatting of an instant.
strptime(ts) == ts[1] * 3600 + ts[2] * 60 + ts[3]

strftime(sec) == << sec \div 3600, (sec % 3600) \div 60, sec % 60 >>

\* The instant T of the examples, 10:00:00, in seconds.
T0 == 36000

Logins == {"alice", "bob"}

-----------------------------------------------------------------------------
(* match_deployments_to_workflow_run *)

\* The window of the heuristic, in seconds.
MATCH_WINDOW == 300

within_window_inclusive(dep_time, run_time) ==
    abs(dep_time - run_time) <= MATCH_WINDOW

\* abs((dep_time - run_time).total_seconds()) < 300
within_window(dep_time, run_time) ==
    abs(dep_time - run_time) < MATCH_WINDOW

dep_matches_undated(dep, run_actor, run_time) ==
    /\ dep.creator = run_actor
    /\ \/ dep.created_at = NoneTs
       \/ within_window(strptime(dep.created_at), run_time)

\* The body of the for loop: does dep go into matched?
dep_matches(dep, run_actor, run_time) ==
    /\ dep.created_at # NoneTs
    /\ dep.creator = run_actor
    /\ within_window(strptime(dep.created_at), run_time)

match_deployments_to_workflow_run(workflow_run, deps) ==
    IF workflow_run.created_at = NoneTs
    THEN << >>
    ELSE LET run_actor == workflow_run.actor
             run_time  == strptime(workflow_run.created_at)
         IN  SelectSeq(deps,
                       LAMBDA dep : dep_matches(dep, run_actor, run_time))

\* ---- the inputs of SpecMatch
MaxMatchDeps == 2

MatchOffsets == {0 - 300, 0 - 299, 0, 60, 120, 299, 300}

MatchRuns ==
    [id : {1}, actor : Logins,
     created_at : {NoneTs, strftime(T0), strftime(T0 + 300)}]

MatchDepFields ==
    [creator : Logins,
     created_at : {NoneTs} \cup {strftime(T0 + o) : o \in MatchOffsets}]

\* The deployments of a repository carry distinct ids: here the position.
MatchDepLists ==
    UNION { { [i \in 1..n |-> [id |-> i, creator |-> f[i].creator,
                               created_at |-> f[i].created_at,
                               environment |-> "prod"]]
              : f \in [1..n -> MatchDepFields] }
            : n \in 0..MaxMatchDeps }

MatchInit ==
    /\ m_pc = "call"
    /\ m_run \in MatchRuns
    /\ m_deps \in MatchDepLists
    /\ m_matched = << >>

MatchCall ==
    /\ m_pc = "call"
    /\ m_matched' = match_deployments_to_workflow_run(m_run, m_deps)
    /\ m_pc' = "returned"
    /\ UNCHANGED <<m_run, m_deps>>
    /\ UNCHANGED notMatch

-----------------------------------------------------------------------------
(* extract_approval_info *)

TERMINAL_STATES == {"success", "failure", "inactive", "error"}

StatusStates == {"queued", "approved", "waiting"} \cup TERMINAL_STATES

approvals_newest_first(statuses) ==
    LET approved == SelectSeq(statuses, LAMBDA s : s.state = "approved")
        n == Len(approved)
    IN  [i \in 1..n |->
            << approved[n + 1 - i].creator, approved[n + 1 - i].created_at >>]

\* for status in statuses: if state == 'approved': approvals.append(...)
approvals_of(statuses) ==
    LET approved == SelectSeq(statuses, LAMBDA s : s.state = "approved")
    IN  [i \in 1..Len(approved) |->
            << approved[i].creator, approved[i].created_at >>]

RECURSIVE first_terminal_from(_, _)
first_terminal_from(statuses, i) ==
    IF i > Len(statuses) THEN None
    ELSE IF statuses[i].state \in TERMINAL_STATES THEN statuses[i].state
    ELSE first_terminal_from(statuses, i + 1)

reversed_scan_forward(statuses, i) == first_terminal_from(statuses, 1)

\* for status in reversed(statuses): if state in [...]: final_status = state;
\* break.  i is the position the scan is at; None when the scan finds nothing.
RECURSIVE reversed_scan(_, _)
reversed_scan(statuses, i) ==
    IF i = 0 THEN None
    ELSE IF statuses[i].state \in TERMINAL_STATES THEN statuses[i].state
    ELSE reversed_scan(statuses, i - 1)

fallback_last_approved(found, statuses) ==
    IF found = None /\ statuses # << >>
    THEN IF \E i \in 1..Len(statuses) : statuses[i].state = "approved"
         THEN "approved"
         ELSE statuses[Len(statuses)].state
    ELSE found

\* if not final_status and statuses: final_status = statuses[-1].get('state')
fallback(found, statuses) ==
    IF found = None /\ statuses # << >>
    THEN statuses[Len(statuses)].state
    ELSE found

final_status_of(statuses) ==
    fallback(reversed_scan(statuses, Len(statuses)), statuses)

extract_approval_info(statuses) ==
    << approvals_of(statuses), final_status_of(statuses) >>

\* ---- the inputs of SpecExtract
MaxStatuses == 3

Reviewers == {"carol", "dave"}

StatusRecords ==
    [state : StatusStates, creator : Reviewers, created_at : {strftime(T0)}]

StatusLists == UNION { [1..n -> StatusRecords] : n \in 0..MaxStatuses }

statuses_reversed_in_place(statuses) ==
    [i \in 1..Len(statuses) |-> statuses[Len(statuses) + 1 - i]]

\* The caller's list after the call: the function only reads it (a for loop,
\* reversed(), statuses[-1]), and approvals is a new list of each call.
statuses_after_extract(statuses) == statuses

ExtractInit ==
    /\ e_pc = "call"
    /\ e_statuses \in StatusLists
    /\ e_result = << << >>, None >>
    /\ e_call = 1
    /\ e_given = e_statuses
    /\ e_first = << << >>, None >>

ExtractCall ==
    /\ e_pc = "call"
    /\ e_result' = extract_approval_info(e_statuses)
    /\ e_statuses' = statuses_after_extract(e_statuses)
    /\ e_first' = IF e_call = 1 THEN extract_approval_info(e_statuses)
                  ELSE e_first
    /\ e_pc' = "returned"
    /\ UNCHANGED <<e_call, e_given>>
    /\ UNCHANGED notExtract

\* The caller passes the same list to extract_approval_info once more.
ExtractAgain ==
    /\ e_pc = "returned"
    /\ e_call = 1
    /\ e_call' = 2
    /\ e_pc' = "call"
    /\ UNCHANGED <<e_statuses, e_result, e_given, e_first>>
    /\ UNCHANGED notExtract

-----------------------------------------------------------------------------
(* github_api_get *)

\* def github_api_get(url, params=None, max_retries=3)
max_retries == 3

\* time.sleep(2) after a generic error
ERROR_DELAY == 2

\* X-RateLimit-Reset absent: time.time() + 60
DEFAULT_RESET_DELAY == 60

sleep_for_unclamped(reset_time, now) == reset_time - now

\* sleep_for = max(reset_time - int(time.time()), 1)
sleep_for(reset_time, now) == Max(reset_time - now, 1)

\* reset_time = int(response.headers.get('X-RateLimit-Reset', time.time() + 60))
reset_time_of(response, now) ==
    IF response.has_reset THEN response.reset ELSE now + DEFAULT_RESET_DELAY

\* ---- the server and the clock of SpecApi
Epoch0 == 1000

\* Where the reset epoch of a rate-limit response lies, relative to now.
ResetOffsets == {0 - 5, 0, 1, 42}

ApiBody == "body"

ApiEmpty == "{}"

RequestEvent(now, kind, has_reset, reset) ==
    [ev |-> "request", at |-> now, kind |-> kind,
     has_reset |-> has_reset, reset |-> reset, for |-> 0]

SleepEvent(now, d) ==
    [ev |-> "sleep", at |-> now, kind |-> "sleep",
     has_reset |-> FALSE, reset |-> 0, for |-> d]

ApiInit ==
    /\ a_pc = "loop"
    /\ a_attempt = 0
    /\ a_now = Epoch0
    /\ a_sleep_for = 0
    /\ a_result = None
    /\ a_log = << >>

\* for attempt in range(max_retries): response = requests.get(...)
ApiCanRequest == a_pc = "loop" /\ a_attempt < max_retries

\* requests.get itself raises (connection error, timeout): line 59 is outside
\* the try block, so the exception leaves github_api_get.
ApiNetworkError ==
    /\ ApiCanRequest
    /\ a_log' = Append(a_log, RequestEvent(a_now, "network_error", FALSE, 0))
    /\ a_pc' = "raised"
    /\ UNCHANGED <<a_attempt, a_now, a_sleep_for, a_result>>
    /\ UNCHANGED notApi

\* 403 with X-RateLimit-Remaining == '0': compute the wait, then sleep.
ApiRateLimited ==
    /\ ApiCanRequest
    /\ \E response \in [has_reset : {TRUE}, reset : {a_now + w : w \in ResetOffsets}]
                       \cup {[has_reset |-> FALSE, reset |-> 0]} :
          /\ a_log' = Append(a_log, RequestEvent(a_now, "rate_limited",
                                                 response.has_reset, response.reset))
          /\ a_sleep_for' = sleep_for(reset_time_of(response, a_now), a_now)
    /\ a_pc' = "sleep_rate"
    /\ UNCHANGED <<a_attempt, a_now, a_result>>
    /\ UNCHANGED notApi

\* raise_for_status() or response.json() raises: caught, time.sleep(2).
ApiGenericError ==
    /\ ApiCanRequest
    /\ \E kind \in {"http_error", "non_json"} :
          a_log' = Append(a_log, RequestEvent(a_now, kind, FALSE, 0))
    /\ a_sleep_for' = ERROR_DELAY
    /\ a_pc' = "sleep_err"
    /\ UNCHANGED <<a_attempt, a_now, a_result>>
    /\ UNCHANGED notApi

\* return response.json()
ApiSuccess ==
    /\ ApiCanRequest
    /\ a_log' = Append(a_log, RequestEvent(a_now, "ok", FALSE, 0))
    /\ a_result' = ApiBody
    /\ a_pc' = "returned"
    /\ UNCHANGED <<a_attempt, a_now, a_sleep_for>>
    /\ UNCHANGED notApi

next_attempt_free_after_rate_limit(at, attempt) ==
    IF at = "sleep_rate" THEN attempt ELSE attempt + 1

\* The attempt after a sleep: `continue` in the rate-limit branch and the end
\* of the loop body after a generic error both go to the next value of
\* range(max_retries).
next_attempt(at, attempt) == attempt + 1

\* time.sleep(...) ends; `continue` or the end of the loop body takes the
\* next attempt of range(max_retries).
ApiSleep ==
    /\ a_pc \in {"sleep_rate", "sleep_err"}
    /\ a_now' = a_now + a_sleep_for
    /\ a_log' = Append(a_log, SleepEvent(a_now, a_sleep_for))
    /\ a_attempt' = next_attempt(a_pc, a_attempt)
    /\ a_pc' = "loop"
    /\ UNCHANGED <<a_sleep_for, a_result>>
    /\ UNCHANGED notApi

\* the loop is exhausted: print "Failed to fetch ..."; return {}
ApiGiveUp ==
    /\ a_pc = "loop"
    /\ a_attempt >= max_retries
    /\ a_result' = ApiEmpty
    /\ a_pc' = "returned"
    /\ UNCHANGED <<a_attempt, a_now, a_sleep_for, a_log>>
    /\ UNCHANGED notApi

ApiNext ==
    \/ ApiNetworkError
    \/ ApiRateLimited
    \/ ApiGenericError
    \/ ApiSuccess
    \/ ApiSleep
    \/ ApiGiveUp

-----------------------------------------------------------------------------
(* main and the fetchers it calls: the values *)

ENTERPRISE_ORG_NAME == "org"

\* The repositories of the organisation, in the order the server lists them.
RepoName(i) == ENTERPRISE_ORG_NAME \o "/r" \o ToString(i)

\* '/' in REPOSITORY, for the values REPOSITORY takes here
has_slash(name) == \E i \in 1..9 : name = RepoName(i)

\* REPOSITORY if '/' in REPOSITORY else f"{ENTERPRISE_ORG_NAME}/{REPOSITORY}"
repo_full_name_of(repository) ==
    IF has_slash(repository) THEN repository
    ELSE ENTERPRISE_ORG_NAME \o "/" \o repository

\* Python's truth value of a string or None
truthy(x) == x # None /\ x # ""

\* a or b
py_or(a, b) == IF truthy(a) THEN a ELSE b

\* a <= b on two timestamp strings of the fixed format: character by
\* character, which is field by field
str_le(a, b) ==
    \/ a[1] < b[1]
    \/ a[1] = b[1] /\ a[2] < b[2]
    \/ a[1] = b[1] /\ a[2] = b[2] /\ a[3] <= b[3]

START_DATE == strftime(T0 - 600)

END_DATE == strftime(T0 + 400)

in_window_exclusive(run, start, end) ==
    /\ run.created_at # NoneTs
    /\ ~str_le(run.created_at, start)
    /\ ~str_le(end, run.created_at)

\* created_at and start <= created_at <= end
in_window(run, start, end) ==
    /\ run.created_at # NoneTs
    /\ str_le(start, run.created_at)
    /\ str_le(run.created_at, end)

RECURSIVE join(_, _)
\* sep.join(strs)
join(sep, strs) ==
    IF strs = << >> THEN ""
    ELSE IF Len(strs) = 1 THEN strs[1]
    ELSE strs[1] \o sep \o join(sep, Tail(strs))

SeqsUpTo(S, n) == UNION { [1..k -> S] : k \in 0..n }

\* The sequences of at most n distinct elements of S.
DistinctSeqsUpTo(S, n) ==
    { q \in SeqsUpTo(S, n) : \A i, j \in 1..Len(q) : q[i] = q[j] => i = j }

Range(q) == { q[i] : i \in 1..Len(q) }

\* The ids of the items of a page, in the order of the page.
IdsOf(items) == [i \in 1..Len(items) |-> items[i].id]

\* ---- what the server holds
MaxPages == 2      \* pages of one paginated listing
MaxRepos == 2      \* repositories of the organisation
MaxRuns == 2       \* workflow runs of the organisation
MaxDeps == 2       \* deployments of the organisation
MaxHistory == 2    \* statuses of one deployment
MaxReviews == 2    \* review records of one run

MainRuns ==
    { [id |-> 1, name |-> "deploy", actor |-> "alice",
       created_at |-> strftime(T0), conclusion |-> "success",
       status |-> "completed"],
      [id |-> 2, name |-> "deploy", actor |-> "alice",
       created_at |-> strftime(T0 + 200), conclusion |-> None,
       status |-> "in_progress"],
      [id |-> 3, name |-> "ci", actor |-> "bob",
       created_at |-> strftime(T0 + 401), conclusion |-> "failure",
       status |-> "completed"] }

MainDeployments ==
    { [id |-> 1, creator |-> "alice", created_at |-> strftime(T0 + 120),
       environment |-> "prod"],
      [id |-> 2, creator |-> "bob", created_at |-> strftime(T0 + 60),
       environment |-> "prod"],
      [id |-> 3, creator |-> "alice", created_at |-> strftime(T0 + 250),
       environment |-> None] }

MainEnvironments ==
    { [name |-> "prod", protection_rules |-> << >>],
      [name |-> "prod", protection_rules |-> << "required_reviewers" >>],
      [name |-> "prod"] }

MainStatuses ==
    { [state |-> "approved", creator |-> "carol",
       created_at |-> strftime(T0 + 130)],
      [state |-> "success", creator |-> "alice",
       created_at |-> strftime(T0 + 140)] }

MainReviews ==
    { [state |-> "approved", user |-> "carol", comment |-> "LGTM"],
      [state |-> "rejected", user |-> "dave", comment |-> ""] }

\* A page the server answers: its items and whether a next link comes with it.
\* room is how many more items the server holds; the last page has no link.
PageResponses(S, room, pg) ==
    [items : SeqsUpTo(S, room),
     has_next : IF pg < MaxPages THEN BOOLEAN ELSE {FALSE}]

\* The same for a listing of entities, which the server lists once each.
EntityPageResponses(S, room, pg) ==
    [items : DistinctSeqsUpTo(S, room),
     has_next : IF pg < MaxPages THEN BOOLEAN ELSE {FALSE}]

\* The page of repositories after the n the server has listed: the next ones.
RepoPageResponses(n, pg) ==
    [items : { [i \in 1..k |-> RepoName(n + i)] : k \in 0..(MaxRepos - n) },
     has_next : IF pg < MaxPages THEN BOOLEAN ELSE {FALSE}]

\* requests.get(...) called directly by a fetcher
DirectRequest(endpoint) == [endpoint |-> endpoint, via |-> "requests.get"]

\* The responses on which a fetcher raises: resp.raise_for_status() on a status
\* that is not a success, resp.json() on a body that is not JSON.
FailureResponses ==
    { [status |-> 404, malformed |-> FALSE],
      [status |-> 500, malformed |-> FALSE],
      [status |-> 200, malformed |-> TRUE] }

\* The fetch that raised: which endpoint, on which response, at which page.
FailedFetch(endpoint, resp, pg) ==
    [endpoint |-> endpoint, status |-> resp.status,
     malformed |-> resp.malformed, page |-> pg]

NoFetch == [endpoint |-> "none", status |-> 0, malformed |-> FALSE, page |-> 0]

-----------------------------------------------------------------------------
(* main: the repositories, and the runs and deployments of one repository *)

MainInit ==
    /\ REPOSITORY \in {"", "r1", "org/r2"}
    /\ pc = "start"
    /\ repos = << >>
    /\ repo_i = 0
    /\ workflow_runs = << >>
    /\ run_i = 0
    /\ deployments = << >>
    /\ approved_by = ""
    /\ approval_comment = ""
    /\ matched_deployments = << >>
    /\ dep_i = 0
    /\ report_rows = << >>
    /\ csv_file = [exists |-> FALSE, rows |-> << >>]
    /\ fetched = << >>
    /\ page = 0
    /\ issued = {}
    /\ runs_served = {}
    /\ deps_served = {}
    /\ rows_before_run = 0
    /\ dep_trace = << >>
    /\ env_served = << >>
    /\ statuses_served = << >>
    /\ resolution = "none"
    /\ reviews_status = 0
    /\ review_states = {}
    /\ failed_fetch = NoFetch
    /\ runs_listed = << >>
    /\ deps_listed = << >>
    /\ row_trace = << >>

runVars == <<workflow_runs, run_i, deployments, approved_by, approval_comment,
             matched_deployments, dep_i>>

rowHist == <<rows_before_run, dep_trace, env_served, statuses_served,
             resolution, reviews_status, review_states, row_trace>>

runHist == <<rowHist, runs_listed, deps_listed>>

depHist == <<runHist, failed_fetch>>

\* if REPOSITORY: repos = [{'full_name': repo_full_name}]
MainStartRepository ==
    /\ pc = "start"
    /\ REPOSITORY # ""
    /\ repos' = << repo_full_name_of(REPOSITORY) >>
    /\ pc' = "next_repo"
    /\ UNCHANGED <<REPOSITORY, repo_i, runVars, report_rows, csv_file,
                   fetched, page, issued, runs_served, deps_served, depHist>>
    /\ UNCHANGED notMain

\* else: repos = list_org_repos(ENTERPRISE_ORG_NAME): the call begins
MainStartOrg ==
    /\ pc = "start"
    /\ REPOSITORY = ""
    /\ fetched' = << >>
    /\ page' = 1
    /\ pc' = "list_org_repos"
    /\ UNCHANGED <<REPOSITORY, repos, repo_i, runVars, report_rows, csv_file,
                   issued, runs_served, deps_served, depHist>>
    /\ UNCHANGED notMain

\* list_org_repos: one turn of `while url`, the page arrives
list_org_repos_page ==
    /\ pc = "list_org_repos"
    /\ \E resp \in RepoPageResponses(Len(fetched), page) :
          LET all == fetched \o resp.items IN
          IF resp.has_next
          THEN /\ fetched' = all
               /\ page' = page + 1
               /\ UNCHANGED <<pc, repos>>
          ELSE /\ repos' = all
               /\ pc' = "next_repo"
               /\ fetched' = << >>
               /\ page' = 0
    /\ issued' = issued \cup {DirectRequest("repos")}
    /\ UNCHANGED <<REPOSITORY, repo_i, runVars, report_rows, csv_file,
                   runs_served, deps_served, depHist>>
    /\ UNCHANGED notMain

\* list_org_repos: resp.raise_for_status() raises, nothing in main catches it
list_org_repos_error ==
    /\ pc = "list_org_repos"
    /\ \E resp \in FailureResponses :
          failed_fetch' = FailedFetch("repos", resp, page)
    /\ issued' = issued \cup {DirectRequest("repos")}
    /\ pc' = "aborted"
    /\ UNCHANGED <<REPOSITORY, repos, repo_i, runVars, report_rows, csv_file,
                   fetched, page, runs_served, deps_served, runHist>>
    /\ UNCHANGED notMain

\* for repo in repos: the next repository; list_workflow_runs begins
NextRepo ==
    /\ pc = "next_repo"
    /\ repo_i < Len(repos)
    /\ repo_i' = repo_i + 1
    /\ fetched' = << >>
    /\ page' = 1
    /\ pc' = "list_workflow_runs"
    /\ UNCHANGED <<REPOSITORY, repos, runVars, report_rows, csv_file,
                   issued, runs_served, deps_served, depHist>>
    /\ UNCHANGED notMain

runs_in_window(page_runs) ==
    SelectSeq(page_runs, LAMBDA run : in_window(run, START_DATE, END_DATE))

\* list_workflow_runs: one turn of `while url`; at the end of the listing
\* list_deployments begins
list_workflow_runs_page ==
    /\ pc = "list_workflow_runs"
    /\ \E resp \in EntityPageResponses(MainRuns \ runs_served,
                                       MaxRuns - Cardinality(runs_served), page) :
          LET runs == fetched \o runs_in_window(resp.items) IN
          /\ runs_served' = runs_served \cup Range(resp.items)
          /\ runs_listed' = runs_listed \o IdsOf(resp.items)
          /\ IF resp.has_next
             THEN /\ fetched' = runs
                  /\ page' = page + 1
                  /\ UNCHANGED <<pc, workflow_runs>>
             ELSE /\ workflow_runs' = runs
                  /\ pc' = "list_deployments"
                  /\ fetched' = << >>
                  /\ page' = 1
    /\ issued' = issued \cup {DirectRequest("workflow_runs")}
    /\ UNCHANGED <<REPOSITORY, repos, repo_i, run_i, deployments,
                   approved_by, approval_comment, matched_deployments, dep_i, report_rows,
                   csv_file, deps_served, rowHist, deps_listed, failed_fetch>>
    /\ UNCHANGED notMain

list_workflow_runs_error ==
    /\ pc = "list_workflow_runs"
    /\ \E resp \in FailureResponses :
          failed_fetch' = FailedFetch("workflow_runs", resp, page)
    /\ issued' = issued \cup {DirectRequest("workflow_runs")}
    /\ pc' = "aborted"
    /\ UNCHANGED <<REPOSITORY, repos, repo_i, runVars, report_rows, csv_file,
                   fetched, page, runs_served, deps_served, runHist>>
    /\ UNCHANGED notMain

\* list_deployments: one turn of `while url`; at the end of the listing the
\* loop over the runs begins
list_deployments_page ==
    /\ pc = "list_deployments"
    /\ \E resp \in EntityPageResponses(MainDeployments \ deps_served,
                                       MaxDeps - Cardinality(deps_served), page) :
          LET all == fetched \o resp.items IN
          /\ deps_served' = deps_served \cup Range(resp.items)
          /\ deps_listed' = deps_listed \o IdsOf(resp.items)
          /\ IF resp.has_next
             THEN /\ fetched' = all
                  /\ page' = page + 1
                  /\ UNCHANGED <<pc, deployments, run_i>>
             ELSE /\ deployments' = all
                  /\ run_i' = 0
                  /\ pc' = "next_run"
                  /\ fetched' = << >>
                  /\ page' = 0
    /\ issued' = issued \cup {DirectRequest("deployments")}
    /\ UNCHANGED <<REPOSITORY, repos, repo_i, workflow_runs,
                   approved_by, approval_comment, matched_deployments, dep_i, report_rows,
                   csv_file, runs_served, rowHist, runs_listed, failed_fetch>>
    /\ UNCHANGED notMain

list_deployments_error ==
    /\ pc = "list_deployments"
    /\ \E resp \in FailureResponses :
          failed_fetch' = FailedFetch("deployments", resp, page)
    /\ issued' = issued \cup {DirectRequest("deployments")}
    /\ pc' = "aborted"
    /\ UNCHANGED <<REPOSITORY, repos, repo_i, runVars, report_rows, csv_file,
                   fetched, page, runs_served, deps_served, runHist>>
    /\ UNCHANGED notMain

-----------------------------------------------------------------------------
(* main: one run, its reviews, its matched deployments, its rows *)

\* What the approvals endpoint answers (a status that raises is apart): the
\* status code and the body, a list, a dict with environment_reviews, or
\* another JSON value.  The body that comes with a 404 is the server's choice.
ReviewResponses ==
    [status : {404, 200}, kind : {"list", "dict"},
     reviews : SeqsUpTo(MainReviews, MaxReviews)]
    \cup [status : {404, 200}, kind : {"other"}, reviews : {<< >>}]

get_workflow_run_reviews_ignoring_404(resp) ==
    IF resp.kind \in {"list", "dict"} THEN resp.reviews ELSE << >>

\* get_workflow_run_reviews, from the response on
get_workflow_run_reviews(resp) ==
    IF resp.status = 404 THEN << >>
    ELSE IF resp.kind = "list" THEN resp.reviews
    ELSE IF resp.kind = "dict" THEN resp.reviews
    ELSE << >>

approved_reviewers_any_state(rs) ==
    LET kept == SelectSeq(rs, LAMBDA r : truthy(r.user))
    IN  [i \in 1..Len(kept) |-> kept[i].user]

\* [r['user']['login'] for r in reviews
\*      if r.get('state') == 'approved' and r.get('user')]
approved_reviewers_of(rs) ==
    LET kept == SelectSeq(rs,
                          LAMBDA r : r.state = "approved" /\ truthy(r.user))
    IN  [i \in 1..Len(kept) |-> kept[i].user]

\* [r.get('comment', '') for r in reviews
\*      if r.get('state') == 'approved' and r.get('comment')]
approval_comments_of(rs) ==
    LET kept == SelectSeq(rs,
                          LAMBDA r : r.state = "approved" /\ truthy(r.comment))
    IN  [i \in 1..Len(kept) |-> kept[i].comment]

approved_by_of(rs) ==
    IF rs # << >> THEN join(", ", approved_reviewers_of(rs)) ELSE ""

approval_comment_of(rs) ==
    IF rs # << >> THEN join(" | ", approval_comments_of(rs)) ELSE ""

report_row_approver_by_deployment(run, by, comment, dep_status) ==
    [run_id           |-> run.id,
     workflow_name    |-> py_or(run.name, None),
     triggered_by     |-> run.actor,
     triggered_at     |-> run.created_at,
     approved_by      |-> IF dep_status = "" THEN by ELSE "",
     approval_comment |-> comment,
     run_status       |-> py_or(run.conclusion, run.status),
     dep_status       |-> dep_status]

\* the dict appended to report_rows
report_row(run, by, comment, dep_status) ==
    [run_id           |-> run.id,
     workflow_name    |-> py_or(run.name, None),
     triggered_by     |-> run.actor,
     triggered_at     |-> run.created_at,
     approved_by      |-> by,
     approval_comment |-> comment,
     run_status       |-> py_or(run.conclusion, run.status),
     dep_status       |-> dep_status]

unmatched_rows_always(matched, row) == << row >>

\* if not matched_deployments: report_rows.append({... 'Deployment Status': ''})
unmatched_rows(matched, row) ==
    IF matched = << >> THEN << row >> ELSE << >>

environment_always_protected(env) == TRUE

\* bool(env.get('protection_rules', []))
environment_has_protection_rules(env) ==
    LET protection_rules ==
            IF "protection_rules" \in DOMAIN env THEN env.protection_rules
            ELSE << >>
    IN  protection_rules # << >>

statuses_replace(statuses, page_items) == page_items

\* statuses.extend(resp.json())
statuses_extend(statuses, page_items) == statuses \o page_items

CurrentRun == workflow_runs[run_i]

\* The position of an id in a listing (0 when it is not there).
PosIn(ids, id) ==
    IF \E i \in 1..Len(ids) : ids[i] = id
    THEN CHOOSE i \in 1..Len(ids) : ids[i] = id
    ELSE 0

\* Where a row comes from: the repository, the position of its run among
\* the runs the server returned, the position of its deployment among the
\* deployments the server returned (dep_id 0, position 0: no deployment).
TraceOf(run_id, dep_id) ==
    [repo   |-> repo_i,
     run    |-> PosIn(runs_listed, run_id),
     dep    |-> PosIn(deps_listed, dep_id),
     run_id |-> run_id]

deployments_consumed_by_match(deps, matched) ==
    SelectSeq(deps, LAMBDA d : \A j \in 1..Len(matched) : matched[j].id # d.id)

\* The deployments of the repository after a run was matched against them:
\* match_deployments_to_workflow_run builds a new list and main only reads
\* `deployments`, so the next run is matched against the same list.
deployments_after_match(deps, matched) == deps

\* for run in workflow_runs: the next run, down to the loop over its matched
\* deployments
BeginRun ==
    /\ pc = "next_run"
    /\ run_i < Len(workflow_runs)
    /\ \E resp \in ReviewResponses :
          LET run     == workflow_runs[run_i + 1]
              rs      == get_workflow_run_reviews(resp)
              by      == approved_by_of(rs)
              comment == approval_comment_of(rs)
              matched == match_deployments_to_workflow_run(run, deployments)
          IN  /\ reviews_status' = resp.status
              /\ review_states' = { rs[i].state : i \in 1..Len(rs) }
              /\ approved_by' = by
              /\ approval_comment' = comment
              /\ matched_deployments' = matched
              /\ deployments' = deployments_after_match(deployments, matched)
              /\ report_rows' = report_rows \o
                     unmatched_rows(matched, report_row(run, by, comment, ""))
              /\ resolution' = IF matched = << >> THEN "unmatched" ELSE "none"
              /\ row_trace' = IF matched = << >>
                              THEN Append(row_trace, TraceOf(run.id, 0))
                              ELSE row_trace
    /\ run_i' = run_i + 1
    /\ dep_i' = 0
    /\ pc' = "next_dep"
    /\ issued' = issued \cup {DirectRequest("approvals")}
    /\ rows_before_run' = Len(report_rows)
    /\ dep_trace' = << >>
    /\ env_served' = << >>
    /\ statuses_served' = << >>
    /\ failed_fetch' = NoFetch
    /\ UNCHANGED <<REPOSITORY, repos, repo_i, workflow_runs,
                   csv_file, fetched, page, runs_served, deps_served,
                   runs_listed, deps_listed>>
    /\ UNCHANGED notMain

\* get_workflow_run_reviews: resp.raise_for_status() raises, nothing catches it
get_workflow_run_reviews_error ==
    /\ pc = "next_run"
    /\ run_i < Len(workflow_runs)
    /\ \E resp \in { r \in FailureResponses : r.status # 404 } :
          failed_fetch' = FailedFetch("approvals", resp, 1)
    /\ issued' = issued \cup {DirectRequest("approvals")}
    /\ pc' = "aborted"
    /\ UNCHANGED <<REPOSITORY, repos, repo_i, runVars, report_rows, csv_file,
                   fetched, page, runs_served, deps_served, runHist>>
    /\ UNCHANGED notMain

dep_status_initial_none == None

\* dep_status = '' at the top of the loop body: what the row carries unless
\* extract_approval_info assigns it
dep_status_initial == ""

HasNextDep == pc = "next_dep" /\ dep_i < Len(matched_deployments)

NextDep == matched_deployments[dep_i + 1]

\* the deployment whose statuses are being listed
ThisDep == matched_deployments[dep_i]

PrependRow(dep_status) ==
    report_rows' = << report_row(CurrentRun, approved_by, approval_comment,
                                 dep_status) >> \o report_rows

\* report_rows.append({...}) for a matched deployment
AppendRow(dep_status) ==
    report_rows' = Append(report_rows,
        report_row(CurrentRun, approved_by, approval_comment, dep_status))

depFrame == <<REPOSITORY, repos, repo_i, workflow_runs, run_i, deployments,
              approved_by, approval_comment, matched_deployments,
              csv_file, runs_served, deps_served, rows_before_run,
              reviews_status, review_states, runs_listed, deps_listed>>

\* for dep in matched_deployments, `if environment:` is false
DepWithoutEnvironment ==
    /\ HasNextDep
    /\ ~truthy(NextDep.environment)
    /\ dep_i' = dep_i + 1
    /\ AppendRow(dep_status_initial)
    /\ resolution' = "no_environment"
    /\ row_trace' = Append(row_trace, TraceOf(CurrentRun.id, NextDep.id))
    /\ failed_fetch' = NoFetch
    /\ dep_trace' = << >>
    /\ env_served' = << >>
    /\ statuses_served' = << >>
    /\ UNCHANGED <<pc, fetched, page, issued>>
    /\ UNCHANGED depFrame
    /\ UNCHANGED notMain

\* get_environment answers; without protection rules the row is appended,
\* with them list_deployment_statuses begins
get_environment_ok ==
    /\ HasNextDep
    /\ truthy(NextDep.environment)
    /\ \E env \in MainEnvironments :
          /\ env_served' = << env >>
          /\ IF environment_has_protection_rules(env)
             THEN /\ pc' = "list_deployment_statuses"
                  /\ fetched' = << >>
                  /\ page' = 1
                  /\ resolution' = "none"
                  /\ UNCHANGED <<report_rows, row_trace>>
             ELSE /\ AppendRow(dep_status_initial)
                  /\ resolution' = "unprotected"
                  /\ row_trace' =
                         Append(row_trace, TraceOf(CurrentRun.id, NextDep.id))
                  /\ UNCHANGED <<pc, fetched, page>>
    /\ dep_i' = dep_i + 1
    /\ dep_trace' = << "environment" >>
    /\ statuses_served' = << >>
    /\ failed_fetch' = NoFetch
    /\ issued' = issued \cup {DirectRequest("environment")}
    /\ UNCHANGED depFrame
    /\ UNCHANGED notMain

\* get_environment raises: `except Exception` catches, dep_status stays ''
get_environment_error ==
    /\ HasNextDep
    /\ truthy(NextDep.environment)
    /\ dep_i' = dep_i + 1
    /\ AppendRow(dep_status_initial)
    /\ resolution' = "env_failed"
    /\ row_trace' = Append(row_trace, TraceOf(CurrentRun.id, NextDep.id))
    /\ \E resp \in FailureResponses :
          failed_fetch' = FailedFetch("environment", resp, 1)
    /\ dep_trace' = << "environment" >>
    /\ env_served' = << >>
    /\ statuses_served' = << >>
    /\ issued' = issued \cup {DirectRequest("environment")}
    /\ UNCHANGED <<pc, fetched, page>>
    /\ UNCHANGED depFrame
    /\ UNCHANGED notMain

\* list_deployment_statuses: one turn of `while url`; at the end of the
\* listing extract_approval_info gives dep_status and the row is appended
list_deployment_statuses_page ==
    /\ pc = "list_deployment_statuses"
    /\ \E resp \in PageResponses(MainStatuses,
                                 MaxHistory - Len(statuses_served), page) :
          LET statuses == statuses_extend(fetched, resp.items) IN
          /\ statuses_served' = statuses_served \o resp.items
          /\ IF resp.has_next
             THEN /\ fetched' = statuses
                  /\ page' = page + 1
                  /\ UNCHANGED <<pc, report_rows, resolution, row_trace>>
             ELSE /\ AppendRow(extract_approval_info(statuses)[2])
                  /\ resolution' = "resolved"
                  /\ row_trace' =
                         Append(row_trace, TraceOf(CurrentRun.id, ThisDep.id))
                  /\ pc' = "next_dep"
                  /\ fetched' = << >>
                  /\ page' = 0
    /\ dep_trace' = Append(dep_trace, "statuses")
    /\ issued' = issued \cup {DirectRequest("statuses")}
    /\ UNCHANGED <<dep_i, env_served, failed_fetch>>
    /\ UNCHANGED depFrame
    /\ UNCHANGED notMain

\* list_deployment_statuses raises: `except Exception` catches, the statuses
\* fetched so far are dropped and dep_status stays ''
list_deployment_statuses_error ==
    /\ pc = "list_deployment_statuses"
    /\ AppendRow(dep_status_initial)
    /\ resolution' = "statuses_failed"
    /\ row_trace' = Append(row_trace, TraceOf(CurrentRun.id, ThisDep.id))
    /\ \E resp \in FailureResponses :
          failed_fetch' = FailedFetch("statuses", resp, page)
    /\ pc' = "next_dep"
    /\ fetched' = << >>
    /\ page' = 0
    /\ dep_trace' = Append(dep_trace, "statuses")
    /\ issued' = issued \cup {DirectRequest("statuses")}
    /\ statuses_served' = << >>
    /\ UNCHANGED <<dep_i, env_served>>
    /\ UNCHANGED depFrame
    /\ UNCHANGED notMain

\* the loop over matched_deployments ends.  The locals of the run are dead
\* from here on (each is assigned again before it is read): they are cleared,
\* and the history of the run with them.
EndDeps ==
    /\ pc = "next_dep"
    /\ dep_i = Len(matched_deployments)
    /\ pc' = "next_run"
    /\ approved_by' = ""
    /\ approval_comment' = ""
    /\ matched_deployments' = << >>
    /\ dep_i' = 0
    /\ rows_before_run' = 0
    /\ dep_trace' = << >>
    /\ env_served' = << >>
    /\ statuses_served' = << >>
    /\ resolution' = "none"
    /\ reviews_status' = 0
    /\ review_states' = {}
    /\ failed_fetch' = NoFetch
    /\ UNCHANGED <<REPOSITORY, repos, repo_i, workflow_runs, run_i, deployments,
                   report_rows, csv_file, fetched, page, issued, runs_served,
                   deps_served, runs_listed, deps_listed, row_trace>>
    /\ UNCHANGED notMain

\* the loop over workflow_runs ends.  The locals of the repository are dead
\* from here on and are cleared.
EndRuns ==
    /\ pc = "next_run"
    /\ run_i = Len(workflow_runs)
    /\ pc' = "next_repo"
    /\ workflow_runs' = << >>
    /\ deployments' = << >>
    /\ run_i' = 0
    /\ runs_listed' = << >>
    /\ deps_listed' = << >>
    /\ UNCHANGED <<REPOSITORY, repos, repo_i, approved_by,
                   approval_comment, matched_deployments, dep_i, report_rows,
                   csv_file, fetched, page, issued, runs_served, deps_served,
                   rowHist, failed_fetch>>
    /\ UNCHANGED notMain

\* What csv.writer puts in a field: None is written as the empty field, a
\* string as it is.
csv_field(v) == IF v = None THEN "" ELSE v

\* One line of the file: the number is written as its numeral, the timestamp
\* string as it is.
csv_row(row) ==
    [row EXCEPT !.run_id        = ToString(@),
                !.workflow_name = csv_field(@),
                !.run_status    = csv_field(@),
                !.dep_status    = csv_field(@)]

\* writer.writerows(report_rows)
writerows(rows) == [k \in 1..Len(rows) |-> csv_row(rows[k])]

repos_loop_left_early == repo_i >= 1

\* `for repo in repos` has gone through all of repos
repos_loop_ended == repo_i = Len(repos)

\* the loop over repos ends: if report_rows: write deployment_report.csv
MainOutput ==
    /\ pc = "next_repo"
    /\ repos_loop_ended
    /\ csv_file' = IF report_rows # << >>
                   THEN [exists |-> TRUE, rows |-> writerows(report_rows)]
                   ELSE csv_file
    /\ pc' = "done"
    /\ UNCHANGED <<REPOSITORY, repos, repo_i, runVars, report_rows,
                   fetched, page, issued, runs_served, deps_served, depHist>>
    /\ UNCHANGED notMain

\* The loop over repos and what follows it.
ReposNext ==
    \/ NextRepo
    \/ list_workflow_runs_page
    \/ list_workflow_runs_error
    \/ list_deployments_page
    \/ list_deployments_error
    \/ BeginRun
    \/ get_workflow_run_reviews_error
    \/ DepWithoutEnvironment
    \/ get_environment_ok
    \/ get_environment_error
    \/ list_deployment_statuses_page
    \/ list_deployment_statuses_error
    \/ EndDeps
    \/ EndRuns
    \/ MainOutput

\* main with REPOSITORY set: the one repository it names
RepositoryNext ==
    \/ MainStartRepository
    \/ ReposNext

\* main with REPOSITORY unset: the repositories of the organisation
OrgNext ==
    \/ MainStartOrg
    \/ list_org_repos_page
    \/ list_org_repos_error
    \/ ReposNext

-----------------------------------------------------------------------------
(* list_org_repos, list_workflow_runs, list_deployments and                 *)
(* list_deployment_statuses: one call, from its first request to its return *)

Fetchers == {"list_org_repos", "list_workflow_runs", "list_deployments",
             "list_deployment_statuses"}

next_url_first_page_only(pg, has_next) == 0

\* if 'next' in resp.links: url = resp.links['next']['url'] else: url = None
\* (0 stands for None)
next_url(pg, has_next) == IF has_next THEN pg + 1 ELSE 0

\* What one page adds to the list: list_workflow_runs appends the runs of
\* the window, the others extend the list by resp.json().
page_contribution(fn, items) ==
    IF fn = "list_workflow_runs" THEN runs_in_window(items) ELSE items

\* ---- the server of SpecPages
MaxChain == 2      \* pages of a chain
MaxItems == 3      \* items of a chain, over all its pages

\* Workflow runs around the two ends of the window, and one without
\* created_at.
PageRuns ==
    { [id |-> 1, name |-> "deploy", actor |-> "alice",
       created_at |-> strftime(strptime(START_DATE) - 1),
       conclusion |-> "success", status |-> "completed"],
      [id |-> 2, name |-> "deploy", actor |-> "alice",
       created_at |-> START_DATE,
       conclusion |-> "success", status |-> "completed"],
      [id |-> 3, name |-> "deploy", actor |-> "bob",
       created_at |-> END_DATE,
       conclusion |-> None, status |-> "in_progress"],
      [id |-> 4, name |-> "ci", actor |-> "bob",
       created_at |-> strftime(strptime(END_DATE) + 1),
       conclusion |-> "failure", status |-> "completed"],
      [id |-> 5, name |-> "ci", actor |-> "alice",
       created_at |-> NoneTs,
       conclusion |-> "success", status |-> "completed"] }

\* What the server holds for a fetcher.
ItemsOf(fn) ==
    IF fn = "list_org_repos" THEN { RepoName(i) : i \in 1..3 }
    ELSE IF fn = "list_workflow_runs" THEN PageRuns
    ELSE IF fn = "list_deployments" THEN MainDeployments
    ELSE MainStatuses

\* Where the pages of a listing end: one end per page, in order, the last one
\* at the end of the listing.  A page may be empty.
PageEnds(n) ==
    { e \in SeqsUpTo(0..n, MaxChain) :
        /\ e # << >>
        /\ e[Len(e)] = n
        /\ \A k \in 1..(Len(e) - 1) : e[k] <= e[k + 1] }

\* The listing cut into pages.
ChainOf(listing, ends) ==
    [k \in 1..Len(ends) |->
        SubSeq(listing, (IF k = 1 THEN 0 ELSE ends[k - 1]) + 1, ends[k])]

\* The chains of pages of a fetcher: the server lists each item once.
Chains(fn) ==
    UNION { { ChainOf(listing, ends) : ends \in PageEnds(Len(listing)) }
            : listing \in DistinctSeqsUpTo(ItemsOf(fn), MaxItems) }

\* The answer to the request for page pg: its items and its next link.
PageOf(chain, pg) == [items |-> chain[pg], has_next |-> pg < Len(chain)]

PageRequest(pg, params) == [page |-> pg, params |-> params]

PagesInit ==
    /\ p_fn \in Fetchers
    /\ p_chain \in Chains(p_fn)
    /\ p_pc = "call"
    /\ p_call = 1
    /\ p_url = 0
    /\ p_params = FALSE
    /\ p_list = << >>
    /\ p_requests = << >>
    /\ p_results = << >>

\* The call begins: the list is empty, url is the first page, params is the
\* dict with per_page.  All three are locals of the call.
PagesBegin ==
    /\ p_pc = "call"
    /\ p_list' = << >>
    /\ p_url' = 1
    /\ p_params' = TRUE
    /\ p_requests' = << >>
    /\ p_pc' = "loop"
    /\ UNCHANGED <<p_fn, p_chain, p_call, p_results>>
    /\ UNCHANGED notPages

\* One turn of `while url`: the request, the page's items, the next link.
PagesTurn ==
    /\ p_pc = "loop"
    /\ p_url # 0
    /\ LET resp == PageOf(p_chain, p_url) IN
          /\ p_list' = p_list \o page_contribution(p_fn, resp.items)
          /\ p_url' = next_url(p_url, resp.has_next)
    /\ p_requests' = Append(p_requests, PageRequest(p_url, p_params))
    /\ p_params' = FALSE
    /\ UNCHANGED <<p_fn, p_chain, p_pc, p_call, p_results>>
    /\ UNCHANGED notPages

\* resp.raise_for_status() raises on the page requested: the call ends there.
PagesRaise ==
    /\ p_pc = "loop"
    /\ p_url # 0
    /\ p_requests' = Append(p_requests, PageRequest(p_url, p_params))
    /\ p_pc' = "raised"
    /\ UNCHANGED <<p_fn, p_chain, p_call, p_url, p_params, p_list, p_results>>
    /\ UNCHANGED notPages

\* url is None: the loop ends, the list is returned
PagesReturn ==
    /\ p_pc = "loop"
    /\ p_url = 0
    /\ p_results' = Append(p_results, p_list)
    /\ p_pc' = "returned"
    /\ UNCHANGED <<p_fn, p_chain, p_call, p_url, p_params, p_list, p_requests>>
    /\ UNCHANGED notPages

\* The caller calls the fetcher again, for the same listing.
PagesAgain ==
    /\ p_pc = "returned"
    /\ p_call = 1
    /\ p_call' = 2
    /\ p_pc' = "call"
    /\ UNCHANGED <<p_fn, p_chain, p_url, p_params, p_list, p_requests,
                   p_results>>
    /\ UNCHANGED notPages

PagesNext ==
    \/ PagesBegin
    \/ PagesTurn
    \/ PagesRaise
    \/ PagesReturn
    \/ PagesAgain

-----------------------------------------------------------------------------
(* copilot_usage_metrics.py: aggregate_metrics_by_feature and               *)
(* aggregate_metrics_by_language_feature                                    *)

\* The numeric metrics of an item of totals_by_language_feature.
MetricNames ==
    {"loc_suggested_to_add_sum", "loc_suggested_to_delete_sum",
     "loc_added_sum", "loc_deleted_sum",
     "code_generation_activity_count", "code_acceptance_activity_count"}

\* d.get(k, default)
dict_get(d, k, default) == IF k \in DOMAIN d THEN d[k] ELSE default

\* The value the defaultdict makes for a new key.
new_metrics ==
    [loc_suggested_to_add_sum       |-> 0,
     loc_suggested_to_delete_sum    |-> 0,
     loc_added_sum                  |-> 0,
     loc_deleted_sum                |-> 0,
     code_generation_activity_count |-> 0,
     code_acceptance_activity_count |-> 0,
     user_count                     |-> {}]

Aggregations ==
    {"aggregate_metrics_by_feature", "aggregate_metrics_by_language_feature"}

key_of_language_feature(fn, item) ==
    dict_get(item, "language", "unknown") \o ":"
        \o dict_get(item, "feature", "unknown")

\* key = f"{feature}" in aggregate_metrics_by_feature,
\* key = f"{language}:{feature}" in aggregate_metrics_by_language_feature
key_of(fn, item) ==
    IF fn = "aggregate_metrics_by_feature"
    THEN dict_get(item, "feature", "unknown")
    ELSE dict_get(item, "language", "unknown") \o ":"
             \o dict_get(item, "feature", "unknown")

\* The body of the inner loop: the six `+=` and the add to the set of users.
add_item(metrics, key, user_login, item) ==
    LET before == IF key \in DOMAIN metrics THEN metrics[key] ELSE new_metrics
        after  == [f \in DOMAIN before |->
                      IF f = "user_count" THEN before[f] \cup {user_login}
                      ELSE before[f] + dict_get(item, f, 0)]
    IN  [k \in DOMAIN metrics \cup {key} |->
            IF k = key THEN after ELSE metrics[k]]

RECURSIVE add_items(_, _, _, _)
\* for item in record.get('totals_by_language_feature', []): ...
add_items(metrics, fn, user_login, items) ==
    IF items = << >> THEN metrics
    ELSE add_items(add_item(metrics, key_of(fn, items[1]), user_login, items[1]),
                   fn, user_login, Tail(items))

RECURSIVE add_records(_, _, _)
\* for record in records: user_login = record.get('user_login', 'unknown'); ...
add_records(metrics, fn, records) ==
    IF records = << >> THEN metrics
    ELSE add_records(
             add_items(metrics, fn,
                       dict_get(records[1], "user_login", "unknown"),
                       dict_get(records[1], "totals_by_language_feature", << >>)),
             fn, Tail(records))

\* Convert sets to counts: user_count = len(user_count)
sets_to_counts(metrics) ==
    [k \in DOMAIN metrics |->
        [metrics[k] EXCEPT !.user_count = Cardinality(@)]]

aggregate_metrics(fn, records) ==
    sets_to_counts(add_records(<< >>, fn, records))

\* ---- the inputs of SpecAggregate
MaxRecords == 2       \* records of the report
MaxRecordItems == 2   \* items of one record's totals_by_language_feature

\* One item per language and feature, as a record's totals hold them: one
\* with all its metrics, one with some of them missing, one of another
\* feature.
MetricItems ==
    { [feature |-> "code_completion", language |-> "python",
       loc_suggested_to_add_sum |-> 10, loc_suggested_to_delete_sum |-> 1,
       loc_added_sum |-> 8, loc_deleted_sum |-> 2,
       code_generation_activity_count |-> 5,
       code_acceptance_activity_count |-> 4],
      [feature |-> "code_completion", language |-> "typescript",
       loc_added_sum |-> 16],
      [feature |-> "agent_edit", language |-> "python",
       loc_suggested_to_add_sum |-> 0, loc_suggested_to_delete_sum |-> 0,
       loc_added_sum |-> 50, loc_deleted_sum |-> 20,
       code_generation_activity_count |-> 3,
       code_acceptance_activity_count |-> 0] }

UserLogins == {"user1", "user2"}

MetricRecords ==
    [user_login : UserLogins,
     totals_by_language_feature : DistinctSeqsUpTo(MetricItems, MaxRecordItems)]

AggregateInit ==
    /\ g_fn \in Aggregations
    /\ g_pc = "call"
    /\ g_records \in SeqsUpTo(MetricRecords, MaxRecords)
    /\ g_result = << >>

AggregateCall ==
    /\ g_pc = "call"
    /\ g_result' = aggregate_metrics(g_fn, g_records)
    /\ g_pc' = "returned"
    /\ UNCHANGED <<g_fn, g_records>>
    /\ UNCHANGED notAgg

-----------------------------------------------------------------------------
(* copilot_usage_metrics.py: calculate_acceptance_rate and                  *)
(* calculate_loc_acceptance_rate                                            *)

RECURSIVE gcd(_, _)
gcd(a, b) == IF b = 0 THEN a ELSE gcd(b, a % b)

\* A float is kept as the fraction it stands for, in lowest terms: the
\* rounding of the two float operations is left out.
Float(n, d) ==
    LET g == gcd(n, d) IN [raised |-> FALSE, num |-> n \div g, den |-> d \div g]

\* 0.0
ZeroFloat == [raised |-> FALSE, num |-> 0, den |-> 1]

ZeroDivisionError == [raised |-> TRUE, num |-> 0, den |-> 1]

\* (a / b) * 100 on two ints: / raises on b == 0
percent(a, b) == IF b = 0 THEN ZeroDivisionError ELSE Float(a * 100, b)

rate_unguarded(numerator, denominator) == percent(numerator, denominator)

\* if generated == 0: return 0.0
\* return (accepted / generated) * 100
\* (calculate_loc_acceptance_rate is the same on added and suggested)
rate(numerator, denominator) ==
    IF denominator = 0 THEN ZeroFloat ELSE percent(numerator, denominator)

Rates == {"calculate_acceptance_rate", "calculate_loc_acceptance_rate"}

\* ---- the inputs of SpecRate
MaxCount == 200

RateInit ==
    /\ r_fn \in Rates
    /\ r_pc = "call"
    /\ r_num \in 0..MaxCount
    /\ r_den \in 0..MaxCount
    /\ r_result = ZeroFloat

RateCall ==
    /\ r_pc = "call"
    /\ r_result' = rate(r_num, r_den)
    /\ r_pc' = IF rate(r_num, r_den).raised THEN "raised" ELSE "returned"
    /\ UNCHANGED <<r_fn, r_num, r_den>>
    /\ UNCHANGED notRate

-----------------------------------------------------------------------------
(* The parts at rest: what a specification leaves alone *)

MatchIdle ==
    /\ m_pc = "idle"
    /\ m_run = [id |-> 1, actor |-> "alice", created_at |-> NoneTs]
    /\ m_deps = << >>
    /\ m_matched = << >>

ExtractIdle ==
    /\ e_pc = "idle"
    /\ e_statuses = << >>
    /\ e_result = << << >>, None >>
    /\ e_call = 0
    /\ e_given = << >>
    /\ e_first = << << >>, None >>

ApiIdle ==
    /\ a_pc = "idle"
    /\ a_attempt = 0
    /\ a_now = Epoch0
    /\ a_sleep_for = 0
    /\ a_result = None
    /\ a_log = << >>

PagesIdle ==
    /\ p_fn = "none"
    /\ p_chain = << >>
    /\ p_pc = "idle"
    /\ p_call = 0
    /\ p_url = 0
    /\ p_params = FALSE
    /\ p_list = << >>
    /\ p_requests = << >>
    /\ p_results = << >>

AggregateIdle ==
    /\ g_fn = "none"
    /\ g_pc = "idle"
    /\ g_records = << >>
    /\ g_result = << >>

RateIdle ==
    /\ r_fn = "none"
    /\ r_pc = "idle"
    /\ r_num = 0
    /\ r_den = 0
    /\ r_result = ZeroFloat

MainIdle ==
    /\ REPOSITORY = ""
    /\ pc = "idle"
    /\ repos = << >>
    /\ repo_i = 0
    /\ workflow_runs = << >>
    /\ run_i = 0
    /\ deployments = << >>
    /\ approved_by = ""
    /\ approval_comment = ""
    /\ matched_deployments = << >>
    /\ dep_i = 0
    /\ report_rows = << >>
    /\ csv_file = [exists |-> FALSE, rows |-> << >>]
    /\ fetched = << >>
    /\ page = 0
    /\ issued = {}
    /\ runs_served = {}
    /\ deps_served = {}
    /\ rows_before_run = 0
    /\ dep_trace = << >>
    /\ env_served = << >>
    /\ statuses_served = << >>
    /\ resolution = "none"
    /\ reviews_status = 0
    /\ review_states = {}
    /\ failed_fetch = NoFetch
    /\ runs_listed = << >>
    /\ deps_listed = << >>
    /\ row_trace = << >>

-----------------------------------------------------------------------------
(* Specifications *)

\* main, REPOSITORY set to the name of a repository of the organisation
Init ==
    /\ MainInit /\ REPOSITORY = "r1"
    /\ MatchIdle /\ ExtractIdle /\ ApiIdle /\ PagesIdle
    /\ AggregateIdle /\ RateIdle
Next == RepositoryNext
Spec == Init /\ [][Next]_vars

\* main, REPOSITORY set to a full name <org>/<repo>
InitQualified ==
    /\ MainInit /\ REPOSITORY = "org/r2"
    /\ MatchIdle /\ ExtractIdle /\ ApiIdle /\ PagesIdle
    /\ AggregateIdle /\ RateIdle
NextQualified == RepositoryNext
SpecQualified == InitQualified /\ [][NextQualified]_vars

\* main, REPOSITORY unset
InitOrg ==
    /\ MainInit /\ REPOSITORY = ""
    /\ MatchIdle /\ ExtractIdle /\ ApiIdle /\ PagesIdle
    /\ AggregateIdle /\ RateIdle
NextOrg == OrgNext
SpecOrg == InitOrg /\ [][NextOrg]_vars

InitMatch ==
    /\ MatchInit
    /\ ExtractIdle /\ ApiIdle /\ PagesIdle /\ AggregateIdle /\ RateIdle
    /\ MainIdle
NextMatch == MatchCall
SpecMatch == InitMatch /\ [][NextMatch]_vars

InitExtract ==
    /\ ExtractInit
    /\ MatchIdle /\ ApiIdle /\ PagesIdle /\ AggregateIdle /\ RateIdle
    /\ MainIdle
NextExtract ==
    \/ ExtractCall
    \/ ExtractAgain
SpecExtract == InitExtract /\ [][NextExtract]_vars

InitApi ==
    /\ ApiInit
    /\ MatchIdle /\ ExtractIdle /\ PagesIdle /\ AggregateIdle /\ RateIdle
    /\ MainIdle
NextApi == ApiNext
SpecApi == InitApi /\ [][NextApi]_vars

\* The same, with the call taking its next step: a request is answered (or
\* fails) and a sleep ends.
SpecApiFair == SpecApi /\ WF_vars(NextApi)

InitPages ==
    /\ PagesInit
    /\ MatchIdle /\ ExtractIdle /\ ApiIdle /\ AggregateIdle /\ RateIdle
    /\ MainIdle
NextPages == PagesNext
SpecPages == InitPages /\ [][NextPages]_vars

\* The same, with the interpreter taking the next step of the call: nothing
\* in a fetcher waits for anything but the answer to its request.
SpecPagesFair == SpecPages /\ WF_vars(NextPages)

InitAggregate ==
    /\ AggregateInit
    /\ MatchIdle /\ ExtractIdle /\ ApiIdle /\ PagesIdle /\ RateIdle
    /\ MainIdle
NextAggregate == AggregateCall
SpecAggregate == InitAggregate /\ [][NextAggregate]_vars

InitRate ==
    /\ RateInit
    /\ MatchIdle /\ ExtractIdle /\ ApiIdle /\ PagesIdle /\ AggregateIdle
    /\ MainIdle
NextRate == RateCall
SpecRate == InitRate /\ [][NextRate]_vars

-----------------------------------------------------------------------------
(* C1: match_deployments_to_workflow_run returns a deployment d iff d's     *)
(* creator equals the run's actor and the gap between d.created_at and the  *)
(* run's created_at is below 300 seconds in absolute value; a gap of        *)
(* exactly 300 seconds, before or after, does not match, a gap of 299 does. *)

Returned(dep, matched) == \E j \in 1..Len(matched) : matched[j].id = dep.id

GapSeconds(dep, run) == strptime(dep.created_at) - strptime(run.created_at)

-----------------------------------------------------------------------------
(* C3: when the status sequence holds an entry whose state is success,      *)
(* failure, inactive or error, the final status is the state of the last    *)
(* such entry, whatever non-terminal entries follow it; [queued, failure,   *)
(* success] gives success.                                                  *)

IsTerminalState(s) == s \in {"success", "failure", "inactive", "error"}

StatesOf(statuses) == [i \in 1..Len(statuses) |-> statuses[i].state]

HasTerminalEntry(statuses) ==
    \E i \in 1..Len(statuses) : IsTerminalState(statuses[i].state)

LastTerminalIndex(statuses) ==
    CHOOSE k \in 1..Len(statuses) :
        /\ IsTerminalState(statuses[k].state)
        /\ \A j \in (k + 1)..Len(statuses) : ~IsTerminalState(statuses[j].state)

\* C3: with a terminal entry present, the final status is the state of the
\* last terminal entry.
C3_FinalStatusIsLastTerminal ==
    (e_pc = "returned" /\ HasTerminalEntry(e_statuses)) =>
        /\ e_result[2] = e_statuses[LastTerminalIndex(e_statuses)].state
        /\ StatesOf(e_statuses) = <<"queued", "failure", "success">>
               => e_result[2] = "success"

\* A terminal entry followed by a non-terminal one, after an earlier terminal
\* entry of another state.
C3_Witness ==
    /\ e_pc = "returned"
    /\ StatesOf(e_statuses) = <<"failure", "success", "waiting">>
    /\ e_result[2] = "success"

(* C4: for a non-empty status sequence without any entry in the terminal    *)
(* set, the final status is the state of the last entry; [queued, approved, *)
(* waiting] gives waiting, not approved.                                    *)

\* C4: without a terminal entry, the final status of a non-empty sequence is
\* the state of its last entry.
C4_FinalStatusFallsBackToLast ==
    (e_pc = "returned" /\ e_statuses # << >> /\ ~HasTerminalEntry(e_statuses)) =>
        /\ e_result[2] = e_statuses[Len(e_statuses)].state
        /\ StatesOf(e_statuses) = <<"queued", "approved", "waiting">>
               => (e_result[2] = "waiting" /\ e_result[2] # "approved")

C4_Witness ==
    /\ e_pc = "returned"
    /\ StatesOf(e_statuses) = <<"queued", "approved", "waiting">>
    /\ e_result[2] = "waiting"

-----------------------------------------------------------------------------
(* C7: a rate-limit response (403 with a zero remaining quota) leads to a   *)
(* sleep and a retry that does not consume the retry budget: whatever the   *)
(* number of rate-limit responses, the call gives up only after max_retries *)
(* attempts that ended in a generic error.                                  *)

IsRequest(e) == e.ev = "request"

IsGenericFailure(e) == e.ev = "request" /\ e.kind \in {"http_error", "non_json"}

IsRateLimit(e) == e.ev = "request" /\ e.kind = "rate_limited"

CountOf(log, P(_)) == Cardinality({i \in 1..Len(log) : P(log[i])})

GaveUp == a_pc = "returned" /\ a_result = ApiEmpty

\* C7: the call gives up only after max_retries generic errors, however many
\* rate-limit responses came in between.
C7_RateLimitKeepsRetryBudget ==
    GaveUp => CountOf(a_log, IsGenericFailure) = max_retries

(* C8: on a rate-limit response whose reset epoch is now + w the call       *)
(* sleeps max(w, 1) seconds: at least w, never less than 1, at least 42 for *)
(* w = 42; and no request is issued between that response and the end of    *)
(* the sleep.                                                               *)

ResetOffsetOf(e) == e.reset - e.at

ExpectedWait(w) == IF w > 1 THEN w ELSE 1

\* C8: a rate-limit response with reset at now + w is followed by a sleep of
\* max(w, 1) seconds, and no request is issued before the sleep has ended.
C8_RateLimitWait ==
    \A i \in 1..Len(a_log) :
        (IsRateLimit(a_log[i]) /\ a_log[i].has_reset) =>
            LET w    == ResetOffsetOf(a_log[i])
                till == a_log[i].at + ExpectedWait(w)
            IN  \* the sleep that is pending, or was taken, right after it
                /\ (i = Len(a_log)) =>
                       /\ a_pc = "sleep_rate"
                       /\ a_sleep_for = ExpectedWait(w)
                /\ (i < Len(a_log)) =>
                       /\ a_log[i + 1].ev = "sleep"
                       /\ a_log[i + 1].for = ExpectedWait(w)
                       /\ a_log[i + 1].for >= w
                       /\ a_log[i + 1].for >= 1
                       /\ (w = 42 => a_log[i + 1].for >= 42)
                \* every later request comes after the wait has elapsed
                /\ \A j \in (i + 1)..Len(a_log) :
                       IsRequest(a_log[j]) => a_log[j].at >= till

\* A reset in the past (w = -5) slept 1 second, then a reset 42 seconds
\* ahead slept 42 seconds, then the next request.
C8_Witness ==
    /\ Len(a_log) = 5
    /\ IsRateLimit(a_log[1]) /\ a_log[1].has_reset
    /\ ResetOffsetOf(a_log[1]) = 0 - 5
    /\ a_log[2].ev = "sleep" /\ a_log[2].for = 1
    /\ IsRateLimit(a_log[3]) /\ a_log[3].has_reset
    /\ ResetOffsetOf(a_log[3]) = 42
    /\ a_log[4].ev = "sleep" /\ a_log[4].for = 42
    /\ IsRequest(a_log[5])
    /\ a_log[5].at = a_log[3].at + 42

(* C9: every failure other than a rate-limit response (network error,       *)
(* non-2xx status, non-JSON body) is followed by a fixed-delay sleep and a  *)
(* retry, for at most max_retries attempts; after the last attempt the call *)
(* returns an empty result and raises nothing; a successful attempt returns *)
(* the parsed body and issues no further request.                           *)

IsOtherFailure(e) ==
    e.ev = "request" /\ e.kind \in {"network_error", "http_error", "non_json"}

\* C9: every failure but a rate-limit response is followed by a 2 s sleep and
\* a retry, at most max_retries requests are made, nothing is raised, the call
\* returns the body on success and an empty result otherwise.
C9_FailuresAreRetriedNeverRaised ==
    /\ a_pc # "raised"
    /\ \A i \in 1..Len(a_log) :
           IsOtherFailure(a_log[i]) =>
               /\ (i = Len(a_log)) => (a_pc = "sleep_err" /\ a_sleep_for = 2)
               /\ (i < Len(a_log)) =>
                      (a_log[i + 1].ev = "sleep" /\ a_log[i + 1].for = 2)
    /\ CountOf(a_log, IsRequest) <= max_retries
    /\ (a_pc = "returned") =>
           IF a_log # << >> /\ a_log[Len(a_log)].kind = "ok"
           THEN a_result = ApiBody
           ELSE a_result = ApiEmpty
    /\ \A i \in 1..Len(a_log) :
           (a_log[i].ev = "request" /\ a_log[i].kind = "ok") => i = Len(a_log)

\* The claim without its network-error case, which the code does satisfy.
C9_HttpFailuresAreRetried ==
    /\ \A i \in 1..Len(a_log) :
           IsGenericFailure(a_log[i]) =>
               /\ (i = Len(a_log)) => (a_pc = "sleep_err" /\ a_sleep_for = 2)
               /\ (i < Len(a_log)) =>
                      (a_log[i + 1].ev = "sleep" /\ a_log[i + 1].for = 2)
    /\ CountOf(a_log, IsRequest) <= max_retries
    /\ (a_pc = "returned") =>
           IF a_log # << >> /\ a_log[Len(a_log)].kind = "ok"
           THEN a_result = ApiBody
           ELSE a_result = ApiEmpty
    /\ \A i \in 1..Len(a_log) :
           (a_log[i].ev = "request" /\ a_log[i].kind = "ok") => i = Len(a_log)

-----------------------------------------------------------------------------
(* C2: for every run main processes, with N matched deployments, exactly    *)
(* max(N, 1) rows are appended: one row with an empty deployment status     *)
(* when N = 0, one row per matched deployment when N >= 1, also when the    *)
(* environment or the status resolution of a matched deployment fails.      *)

\* The deployments of the repository that the heuristic assigns to the run.
MatchedCount(run, deps) ==
    Cardinality({ i \in 1..Len(deps) :
                    /\ deps[i].creator = run.actor
                    /\ strptime(deps[i].created_at) - strptime(run.created_at) < 300
                    /\ strptime(run.created_at) - strptime(deps[i].created_at) < 300 })

InRun == pc \in {"next_dep", "list_deployment_statuses"}

RunFinished == pc = "next_dep" /\ dep_i = Len(matched_deployments)

RowsOfRun == Len(report_rows) - rows_before_run

\* The matched deployments whose row is due: all but the one in resolution.
DepsDone == IF pc = "list_deployment_statuses" THEN dep_i - 1 ELSE dep_i

\* C2: a run with N matched deployments gets exactly max(N, 1) rows, whether
\* or not the environment or status fetches of its deployments fail.
C2_RowsPerRun ==
    InRun =>
        LET N == MatchedCount(CurrentRun, deployments) IN
        /\ N = 0 => /\ RowsOfRun = 1
                    /\ report_rows[Len(report_rows)].dep_status = ""
        /\ N >= 1 => RowsOfRun = DepsDone
        /\ RunFinished => RowsOfRun = Max(N, 1)
        /\ \A k \in (rows_before_run + 1)..Len(report_rows) :
               report_rows[k].run_id = CurrentRun.id

\* A run with two matched deployments, the status fetch of the second of
\* which failed, has its two rows.
C2_Witness ==
    /\ RunFinished
    /\ MatchedCount(CurrentRun, deployments) = 2
    /\ resolution = "statuses_failed"
    /\ RowsOfRun = 2

\* A run without a matched deployment has its one row.
C2_WitnessUnmatched ==
    /\ RunFinished
    /\ deployments # << >>
    /\ MatchedCount(CurrentRun, deployments) = 0
    /\ RowsOfRun = 1

(* C5: for a matched deployment whose environment has an empty or absent    *)
(* protection-rule list no statuses request is issued and the row's         *)
(* deployment status is the empty string; a statuses request is issued only *)
(* after the environment fetch of that deployment returned at least one     *)
(* protection rule.                                                         *)

RuleCount(env) ==
    IF "protection_rules" \in DOMAIN env THEN Len(env.protection_rules) ELSE 0

StatusesRequested == \E i \in 1..Len(dep_trace) : dep_trace[i] = "statuses"

\* C5: statuses are requested only after the environment came with at least
\* one protection rule; without one the row's deployment status is empty.
C5_StatusesOnlyForProtected ==
    /\ (StatusesRequested \/ pc = "list_deployment_statuses") =>
           /\ dep_trace # << >>
           /\ dep_trace[1] = "environment"
           /\ Len(env_served) = 1
           /\ RuleCount(env_served[1]) >= 1
    /\ (Len(env_served) = 1 /\ RuleCount(env_served[1]) = 0) =>
           /\ ~StatusesRequested
           /\ pc # "list_deployment_statuses"
           /\ report_rows[Len(report_rows)].dep_status = ""
           /\ RowsOfRun = dep_i

\* The environment came without a protection_rules key: the row is there,
\* its status is empty, no statuses request was made.
C5_Witness ==
    /\ env_served = << [name |-> "prod"] >>
    /\ resolution = "unprotected"
    /\ dep_trace = << "environment" >>
    /\ report_rows[Len(report_rows)].dep_status = ""

(* C6: for a matched deployment of a protected environment whose fetches    *)
(* succeed, the row's deployment status is the final status of              *)
(* extract_approval_info over the deployment's whole status sequence, all   *)
(* pages in the order returned; for the run of alice at T with the          *)
(* deployments of alice at T+120 and of bob at T+60 exactly one row is      *)
(* emitted, with status success for the history [approved, success].        *)

ScenarioRun ==
    /\ CurrentRun.actor = "alice"
    /\ CurrentRun.created_at = strftime(T0)

ScenarioDeployments ==
    /\ Len(deployments) = 2
    /\ deployments[1].creator = "alice"
    /\ deployments[1].created_at = strftime(T0 + 120)
    /\ deployments[2].creator = "bob"
    /\ deployments[2].created_at = strftime(T0 + 60)

\* C6: the row of a resolved deployment carries the final status of its whole
\* status sequence; the alice/bob scenario gives one row, status success.
C6_StatusFromWholeHistory ==
    /\ resolution = "resolved" =>
           report_rows[Len(report_rows)].dep_status =
               extract_approval_info(statuses_served)[2]
    /\ (RunFinished /\ ScenarioRun /\ ScenarioDeployments
           /\ resolution = "resolved"
           /\ StatesOf(statuses_served) = <<"approved", "success">>) =>
           /\ RowsOfRun = 1
           /\ report_rows[Len(report_rows)].dep_status = "success"

\* The scenario, with the history served on two pages.
C6_Witness ==
    /\ RunFinished /\ ScenarioRun /\ ScenarioDeployments
    /\ resolution = "resolved"
    /\ dep_trace = << "environment", "statuses", "statuses" >>
    /\ StatesOf(statuses_served) = <<"approved", "success">>
    /\ RowsOfRun = 1
    /\ report_rows[Len(report_rows)].dep_status = "success"

(* C10: every request for a page of repositories, workflow runs,            *)
(* deployments or deployment statuses is issued through github_api_get.     *)

PageEndpoints == {"repos", "workflow_runs", "deployments", "statuses"}

\* C10: every page request goes through github_api_get.
C10_PagesThroughRateLimitedClient ==
    \A r \in issued : r.endpoint \in PageEndpoints => r.via = "github_api_get"

-----------------------------------------------------------------------------
(* C11: a failure of a single fetch (the workflow runs or the deployments   *)
(* of one repository, the reviews of one run; a status other than the       *)
(* tolerated 404, or a malformed body) is turned into an empty value where  *)
(* it happens and never aborts the report.                                  *)

ContainedEndpoints == {"workflow_runs", "deployments", "approvals"}

\* A response the claim does not count as tolerated: any but a plain 404.
IsHardFailure(f) == f.status # 404 \/ f.malformed

\* C11: after a failed fetch of runs, deployments or reviews main is still
\* running (or done): the failure did not end it.
C11_FetchFailureIsContained ==
    (failed_fetch.endpoint \in ContainedEndpoints /\ IsHardFailure(failed_fetch))
        => pc # "aborted"

(* C12: when the first page request of the deployments of a repository or   *)
(* of the statuses of a deployment answers 404, the fetcher returns an      *)
(* empty sequence, raises nothing, and the repository goes on being         *)
(* processed.                                                               *)

OptionalCollections == {"deployments", "statuses"}

IsFirstPage404(f) == f.status = 404 /\ ~f.malformed /\ f.page = 1

\* C12: a 404 on the first page of deployments or statuses raises nothing:
\* main is not ended by it and no except branch is taken for it.
C12_FirstPage404IsEmpty ==
    (failed_fetch.endpoint \in OptionalCollections /\ IsFirstPage404(failed_fetch))
        => /\ pc # "aborted"
           /\ resolution # "statuses_failed"

(* C13: when the environment fetch or the status fetch of a matched         *)
(* deployment fails (any error, a 404 included), the error is caught: the   *)
(* row of the deployment is emitted with an empty deployment status, and    *)
(* the loop over the matched deployments goes on as after a success.        *)

ResolutionFailed == resolution \in {"env_failed", "statuses_failed"}

\* Where main stands after a deployment whose resolution succeeded.
AfterDeployment == pc = "next_dep" /\ fetched = << >> /\ page = 0

\* C13: a failed environment or status fetch leaves main in the loop over the
\* matched deployments, with the deployment's row appended and its
\* deployment status empty.
C13_ResolutionFailureIsCaught ==
    ResolutionFailed =>
        /\ failed_fetch.endpoint =
               (IF resolution = "env_failed" THEN "environment" ELSE "statuses")
        /\ AfterDeployment
        /\ dep_i <= Len(matched_deployments)
        /\ RowsOfRun = dep_i
        /\ report_rows[Len(report_rows)] =
               report_row(CurrentRun, approved_by, approval_comment, "")

\* The environment of the first of two matched deployments answered 404: its
\* row is there and the second deployment is still to come.
C13_Witness ==
    /\ resolution = "env_failed"
    /\ failed_fetch.status = 404
    /\ Len(matched_deployments) = 2
    /\ dep_i = 1
    /\ RowsOfRun = 1
    /\ report_rows[Len(report_rows)].dep_status = ""

\* The status fetch failed on its second page, for the last deployment of
\* the second run.
C13_WitnessStatuses ==
    /\ resolution = "statuses_failed"
    /\ failed_fetch.page = 2
    /\ run_i = 2
    /\ RunFinished
    /\ report_rows[Len(report_rows)].dep_status = ""

(* C14: when the approvals endpoint answers 404, get_workflow_run_reviews   *)
(* returns an empty list and raises nothing; the run is reported with empty *)
(* approver and approval-comment fields and its max(N, 1) rows are emitted. *)

RowsOfCurrentRun ==
    { report_rows[k] : k \in (rows_before_run + 1)..Len(report_rows) }

\* C14: a run whose approvals request answered 404 is in processing with no
\* review records, its rows carry empty approver and comment fields, and at
\* the end of the run there are max(N, 1) of them.
C14_Reviews404IsNoReviews ==
    reviews_status = 404 =>
        /\ InRun
        /\ review_states = {}
        /\ approved_by = "" /\ approval_comment = ""
        /\ \A row \in RowsOfCurrentRun :
               /\ row.run_id = CurrentRun.id
               /\ row.approved_by = ""
               /\ row.approval_comment = ""
        /\ RunFinished =>
               RowsOfRun = Max(MatchedCount(CurrentRun, deployments), 1)

\* A run with two matched deployments whose approvals request answered 404
\* has its two rows.
C14_Witness ==
    /\ reviews_status = 404
    /\ RunFinished
    /\ MatchedCount(CurrentRun, deployments) = 2
    /\ RowsOfRun = 2
    /\ report_rows[Len(report_rows)].approved_by = ""

\* The same for a run without a matched deployment: one row.
C14_WitnessUnmatched ==
    /\ reviews_status = 404
    /\ RunFinished
    /\ MatchedCount(CurrentRun, deployments) = 0
    /\ RowsOfRun = 1
    /\ report_rows[Len(report_rows)].approved_by = ""

(* C15: the approver field of a run's rows lists the distinct logins of the *)
(* review records with state approved: a login of several approved records  *)
(* appears exactly once in the comma-joined string, a login of a record in  *)
(* any other state never appears.                                           *)

\* The logins of the records with state approved among the records served.
\* (A record of MainReviews is known by its state.)
ApprovedLogins(states) ==
    { r.user : r \in { x \in MainReviews :
                          x.state = "approved" /\ x.state \in states } }

\* The strings that list each login of S exactly once.
DistinctListings(S) ==
    { join(", ", q) : q \in { x \in DistinctSeqsUpTo(S, Cardinality(S)) :
                                 Range(x) = S } }

\* C15: the approver string of the run in processing, and of each of its
\* rows, lists every approved login once and no other login.
C15_ApproversAreDistinct ==
    InRun =>
        /\ approved_by \in DistinctListings(ApprovedLogins(review_states))
        /\ \A row \in RowsOfCurrentRun :
               row.approved_by \in DistinctListings(ApprovedLogins(review_states))

(* C16: a run that has review records, none of them with state approved,    *)
(* is processed without failure, with an empty approver string and an empty *)
(* approval comment; its rows are emitted as for a run with approved        *)
(* reviews, neither suppressed nor flagged.                                 *)

ReviewsButNoneApproved ==
    review_states # {} /\ "approved" \notin review_states

\* C16: a run with review records but no approved one is in processing, its
\* approver and comment are empty, and its rows are the ordinary rows of the
\* run, max(N, 1) of them at the end.
C16_NoApprovedReviewIsNoFailure ==
    ReviewsButNoneApproved =>
        /\ InRun
        /\ reviews_status = 200
        /\ approved_by = "" /\ approval_comment = ""
        /\ \A row \in RowsOfCurrentRun :
               row = report_row(CurrentRun, "", "", row.dep_status)
        /\ LET N == MatchedCount(CurrentRun, deployments) IN
           /\ N = 0 => RowsOfRun = 1
           /\ N >= 1 => RowsOfRun = DepsDone
           /\ RunFinished => RowsOfRun = Max(N, 1)

\* A run with one rejected review and two matched deployments, the second of
\* them resolved: two rows, no approver.
C16_Witness ==
    /\ review_states = {"rejected"}
    /\ RunFinished
    /\ MatchedCount(CurrentRun, deployments) = 2
    /\ RowsOfRun = 2
    /\ resolution = "resolved"
    /\ report_rows[Len(report_rows)].approved_by = ""
    /\ report_rows[Len(report_rows)].dep_status = "success"

-----------------------------------------------------------------------------
(* C17: the rows are emitted in source order: the repositories in the order *)
(* listed, within a repository the runs in the order the pages returned     *)
(* them, within a run the matched deployments in their order in the         *)
(* repository's deployment list; the rows of one run are contiguous.        *)

\* a comes before b in source order
SourceBefore(a, b) ==
    \/ a.repo < b.repo
    \/ a.repo = b.repo /\ a.run < b.run
    \/ a.repo = b.repo /\ a.run = b.run /\ a.dep < b.dep

\* C17: row k is the row of the k-th (repository, run, deployment) in source
\* order among those that have a row, and the rows of a run are adjacent.
C17_RowsInSourceOrder ==
    /\ \A i \in 1..Len(repos) : repos[i] = RepoName(i)
    /\ Len(row_trace) = Len(report_rows)
    /\ \A k \in 1..Len(report_rows) :
           /\ report_rows[k].run_id = row_trace[k].run_id
           /\ row_trace[k].repo \in 1..Len(repos)
           /\ row_trace[k].run >= 1
    /\ \A k \in 1..(Len(report_rows) - 1) :
           SourceBefore(row_trace[k], row_trace[k + 1])
    /\ \A i, k \in 1..Len(report_rows) :
           (i < k /\ report_rows[i].run_id = report_rows[k].run_id) =>
               \A j \in i..k : report_rows[j].run_id = report_rows[i].run_id

\* The first repository has a run with two matched deployments, the second
\* a run without one: three rows, in that order.
C17_Witness ==
    /\ pc = "done"
    /\ Len(report_rows) = 3
    /\ row_trace[1].repo = 1 /\ row_trace[1].dep = 1
    /\ row_trace[2].repo = 1 /\ row_trace[2].dep = 2
    /\ row_trace[2].run_id = row_trace[1].run_id
    /\ row_trace[3].repo = 2 /\ row_trace[3].dep = 0
    /\ report_rows[3].run_id # report_rows[1].run_id

\* Two runs of one repository, returned on two pages, the second of them
\* after a run outside the window: their rows follow the pages.
C17_WitnessRuns ==
    /\ Len(report_rows) = 2
    /\ row_trace[1].repo = row_trace[2].repo
    /\ row_trace[1].run = 1
    /\ row_trace[2].run = 2

-----------------------------------------------------------------------------
(* C18: all rows of one workflow run carry the same run-level fields (run   *)
(* id, workflow name, triggering actor, trigger time, approver string,      *)
(* approval comment, run status), equal to the values of the run and of its *)
(* reviews; rows of one run differ at most in the deployment status.        *)

RunLevelFields(row) ==
    << row.run_id, row.workflow_name, row.triggered_by, row.triggered_at,
       row.approved_by, row.approval_comment, row.run_status >>

\* The run's own terminal status: its conclusion, its status when it has none.
RunStatusOf(run) == IF run.conclusion # None THEN run.conclusion ELSE run.status

\* The approver strings and comments the served reviews can give: one entry
\* per approved record, none without an approved record.
ApproverStringsOf(states) ==
    IF "approved" \in states
    THEN { join(", ", q) :
             q \in SeqsUpTo(ApprovedLogins(states), MaxReviews) \ {<< >>} }
    ELSE {""}

\* C18: the rows of the run in processing carry the values of the run and of
\* its reviews, and any two rows of the report with the same run id agree on
\* every run-level field.
C18_RunLevelFieldsShared ==
    /\ InRun =>
           /\ approved_by \in ApproverStringsOf(review_states)
           /\ approval_comment = "" <=> "approved" \notin review_states
           /\ \A row \in RowsOfCurrentRun :
                  RunLevelFields(row) =
                      << CurrentRun.id, CurrentRun.name, CurrentRun.actor,
                         CurrentRun.created_at, approved_by, approval_comment,
                         RunStatusOf(CurrentRun) >>
    /\ \A j, k \in 1..Len(report_rows) :
           report_rows[j].run_id = report_rows[k].run_id =>
               RunLevelFields(report_rows[j]) = RunLevelFields(report_rows[k])

\* A run still in progress, approved by carol, with two matched deployments:
\* two rows that differ in the deployment status only.
C18_Witness ==
    /\ RunFinished
    /\ RowsOfRun = 2
    /\ CurrentRun.conclusion = None
    /\ approved_by = "carol"
    /\ report_rows[Len(report_rows)].dep_status = "success"
    /\ report_rows[Len(report_rows) - 1].dep_status = ""
    /\ report_rows[Len(report_rows)].run_status = "in_progress"
    /\ RunLevelFields(report_rows[Len(report_rows)]) =
           RunLevelFields(report_rows[Len(report_rows) - 1])

-----------------------------------------------------------------------------
(* C19: match_deployments_to_workflow_run returns the empty list, without   *)
(* error, for a run that has no created_at, whatever the deployments are;   *)
(* for a run with a created_at, a deployment without created_at is never in *)
(* the result and does not change which other deployments are matched.      *)

\* The deployments that carry a created_at, in their order.
Dated(deps) == SelectSeq(deps, LAMBDA d : d.created_at # NoneTs)

\* C19: a run without created_at matches nothing; a deployment without
\* created_at is not returned, and the result is the one the dated
\* deployments alone give.
C19_MissingTimesMatchNothing ==
    m_pc = "returned" =>
        /\ m_run.created_at = NoneTs => m_matched = << >>
        /\ m_run.created_at # NoneTs =>
               /\ \A i \in 1..Len(m_deps) :
                      m_deps[i].created_at = NoneTs =>
                          ~Returned(m_deps[i], m_matched)
               /\ m_matched =
                      match_deployments_to_workflow_run(m_run, Dated(m_deps))
               /\ \A i \in 1..Len(m_deps) :
                      (/\ m_deps[i].created_at # NoneTs
                       /\ m_deps[i].creator = m_run.actor
                       /\ abs(GapSeconds(m_deps[i], m_run)) < 300)
                          => Returned(m_deps[i], m_matched)

\* A deployment of the run's actor without created_at, before one of the
\* same actor 60 s after the run: only the second is returned.
C19_Witness ==
    /\ m_pc = "returned"
    /\ m_run.created_at # NoneTs
    /\ Len(m_deps) = 2
    /\ m_deps[1].creator = m_run.actor /\ m_deps[1].created_at = NoneTs
    /\ m_deps[2].creator = m_run.actor /\ m_deps[2].created_at # NoneTs
    /\ GapSeconds(m_deps[2], m_run) = 60
    /\ Len(m_matched) = 1
    /\ m_matched[1].id = 2

\* A run without created_at, with two deployments of its actor: nothing is
\* returned.
C19_WitnessRun ==
    /\ m_pc = "returned"
    /\ m_run.created_at = NoneTs
    /\ Len(m_deps) = 2
    /\ m_deps[1].creator = m_run.actor /\ m_deps[1].created_at # NoneTs
    /\ m_deps[2].creator = m_run.actor /\ m_deps[2].created_at # NoneTs
    /\ m_matched = << >>

-----------------------------------------------------------------------------
(* C20: the approvals extract_approval_info returns are exactly the entries *)
(* of the status sequence whose state is approved, in their original order  *)
(* and with their multiplicity, each projected to (creator, created_at);    *)
(* entries in any other state contribute nothing.                           *)

ApprovedIndexes(statuses) ==
    { i \in 1..Len(statuses) : statuses[i].state = "approved" }

\* The position in the sequence of its k-th approved entry.
KthApproved(statuses, k) ==
    CHOOSE i \in ApprovedIndexes(statuses) :
        Cardinality({ j \in ApprovedIndexes(statuses) : j <= i }) = k

\* C20: there is one approval per approved entry, and the k-th approval is
\* the (creator, created_at) of the k-th approved entry.
C20_ApprovalsAreTheApprovedEntries ==
    e_pc = "returned" =>
        LET approvals == e_result[1] IN
        /\ Len(approvals) = Cardinality(ApprovedIndexes(e_statuses))
        /\ \A k \in 1..Len(approvals) :
               LET entry == e_statuses[KthApproved(e_statuses, k)] IN
               approvals[k] = << entry.creator, entry.created_at >>

\* approved by carol, queued, approved by dave: two approvals, carol's first.
C20_Witness ==
    /\ e_pc = "returned"
    /\ StatesOf(e_statuses) = <<"approved", "queued", "approved">>
    /\ e_statuses[1].creator = "carol"
    /\ e_statuses[3].creator = "dave"
    /\ Len(e_result[1]) = 2
    /\ e_result[1][1][1] = "carol"
    /\ e_result[1][2][1] = "dave"

\* Two approved entries of the same creator give two approvals.
C20_WitnessTwice ==
    /\ e_pc = "returned"
    /\ StatesOf(e_statuses) = <<"approved", "approved", "success">>
    /\ e_statuses[1].creator = "carol"
    /\ e_statuses[2].creator = "carol"
    /\ Len(e_result[1]) = 2

-----------------------------------------------------------------------------
(* C21: when the deployment of a protected environment has an empty status  *)
(* sequence, extract_approval_info yields no approvals and an empty final   *)
(* status, and the row of the deployment carries the empty string as its    *)
(* deployment status, the value it carries for an unprotected or unresolved *)
(* deployment; the deployment status of every row is the empty string or a  *)
(* state of the deployment's status history.                                *)

\* The row main appended last.
LastRow == report_rows[Len(report_rows)]

\* The last row is that of a deployment whose statuses were listed to the end.
StatusResolved == resolution = "resolved" /\ pc = "next_dep"

\* C21: a row whose status came from extract_approval_info carries '' or a
\* state of the history served, and '' when the history is empty.
C21_DeploymentStatusIsEmptyOrInHistory ==
    StatusResolved =>
        /\ \/ LastRow.dep_status = ""
           \/ \E i \in 1..Len(statuses_served) :
                  LastRow.dep_status = statuses_served[i].state
        /\ statuses_served = << >> => LastRow.dep_status = dep_status_initial

\* What the code does on an empty history: final_status stays None, the row
\* carries None, and the value differs from that of an unresolved deployment.
C21_EmptyHistoryGivesNone ==
    (StatusResolved /\ statuses_served = << >>) =>
        /\ extract_approval_info(statuses_served) = << << >>, None >>
        /\ LastRow.dep_status = None
        /\ LastRow.dep_status # dep_status_initial

\* A protected environment, the status listing answered one empty page.
C21_Witness ==
    /\ StatusResolved
    /\ statuses_served = << >>
    /\ environment_has_protection_rules(env_served[1])
    /\ dep_trace = << "environment", "statuses" >>
    /\ LastRow.dep_status = None

\* In a row with a non-empty history the status is one of its states; and
\* in the file every deployment status is a string, None is written as ''.
C21_StatusFromHistoryOrEmptyInFile ==
    /\ (StatusResolved /\ statuses_served # << >>) =>
           \E i \in 1..Len(statuses_served) :
               LastRow.dep_status = statuses_served[i].state
    /\ \A k \in 1..Len(csv_file.rows) :
           /\ csv_file.rows[k].dep_status # None
           /\ report_rows[k].dep_status = None
                  => csv_file.rows[k].dep_status = ""

-----------------------------------------------------------------------------
(* C22: a paginated fetch (list_org_repos, list_workflow_runs,              *)
(* list_deployments, list_deployment_statuses) follows the server's next    *)
(* link while there is one and stops at the first page without one; on a    *)
(* finite chain of pages it ends after exactly one successful request per   *)
(* page and returns what the pages contribute, concatenated in page order;  *)
(* two calls share no cursor: the second begins again at the first page.    *)

RECURSIVE ContributionsUpTo(_, _, _)
\* What the first n pages of a chain contribute, in page order.
ContributionsUpTo(fn, chain, n) ==
    IF n = 0 THEN << >>
    ELSE ContributionsUpTo(fn, chain, n - 1)
             \o page_contribution(fn, chain[n])

PagesCallRunning == p_pc \in {"loop", "returned", "raised"}

C22_CallEnds == (p_pc = "loop") ~> (p_pc \in {"returned", "raised"})

C22_WitnessEmptyPage ==
    /\ p_fn = "list_org_repos"
    /\ p_pc = "returned"
    /\ Len(p_chain) = 2
    /\ p_chain[1] = << >>
    /\ Len(p_results[1]) = 2

-----------------------------------------------------------------------------
(* C23: list_workflow_runs returns exactly the runs, over all pages and in  *)
(* page order, whose created_at lies in the inclusive window [start, end]:  *)
(* a run created exactly at start or exactly at end is kept, a run outside  *)
(* the window or without created_at is dropped, and pagination goes on past *)
(* a page that contributes no run.                                          *)

RECURSIVE Concat(_)
\* The items of all pages of a chain, in page order.
Concat(chain) ==
    IF chain = << >> THEN << >>
    ELSE Concat(SubSeq(chain, 1, Len(chain) - 1)) \o chain[Len(chain)]

\* The instant of a run lies between the two ends of the window, ends
\* included.
CreatedInWindow(run) ==
    /\ run.created_at # NoneTs
    /\ strptime(START_DATE) <= strptime(run.created_at)
    /\ strptime(run.created_at) <= strptime(END_DATE)

ListedRuns == p_fn = "list_workflow_runs" /\ p_pc = "returned"

\* C23: what list_workflow_runs returns is the runs of all pages in page
\* order with those outside [start, end] and those without created_at left
\* out, and it has requested every page.
C23_RunsOfInclusiveWindow ==
    ListedRuns =>
        /\ p_results[p_call] =
               SelectSeq(Concat(p_chain), LAMBDA run : CreatedInWindow(run))
        /\ Len(p_requests) = Len(p_chain)

\* The first page holds the run created one second before start, which is
\* dropped; the second holds the runs created at start and at end, which are
\* both returned, in that order.
C23_Witness ==
    /\ ListedRuns
    /\ Len(p_chain) = 2
    /\ Len(p_chain[1]) = 1
    /\ p_chain[1][1].created_at = strftime(strptime(START_DATE) - 1)
    /\ Len(p_chain[2]) = 2
    /\ p_chain[2][1].created_at = START_DATE
    /\ p_chain[2][2].created_at = END_DATE
    /\ p_results[p_call] = p_chain[2]

\* A run without created_at and a run one second after end are dropped, the
\* run between them is kept.
C23_WitnessDropped ==
    /\ ListedRuns
    /\ Len(Concat(p_chain)) = 3
    /\ Concat(p_chain)[1].created_at = NoneTs
    /\ Concat(p_chain)[2].created_at = END_DATE
    /\ Concat(p_chain)[3].created_at = strftime(strptime(END_DATE) + 1)
    /\ p_results[p_call] = << Concat(p_chain)[2] >>

-----------------------------------------------------------------------------
(* C24: running extract_approval_info twice on the same status sequence     *)
(* yields identical (approvals, final status) results, and the call leaves  *)
(* the status sequence unchanged.                                           *)

-----------------------------------------------------------------------------
(* C25: aggregate_metrics_by_feature groups the totals_by_language_feature  *)
(* items of all records by feature, aggregate_metrics_by_language_feature   *)
(* by language:feature: for each key every numeric metric is the sum of     *)
(* that metric over the key's items, a missing metric counting 0;           *)
(* user_count is the number of distinct user_login values that contributed  *)
(* an item to the key; an empty record list gives an empty result.          *)

\* The items of all records: <<i, j>> is the j-th item of the i-th record.
ItemRefs ==
    UNION { { <<i, j>> :
                j \in 1..Len(g_records[i].totals_by_language_feature) }
            : i \in 1..Len(g_records) }

ItemAt(r) == g_records[r[1]].totals_by_language_feature[r[2]]

UserAt(r) == g_records[r[1]].user_login

\* The key the claim groups an item by.
GroupOf(item) ==
    IF g_fn = "aggregate_metrics_by_feature" THEN item.feature
    ELSE item.language \o ":" \o item.feature

RefsOfGroup(key) == { r \in ItemRefs : GroupOf(ItemAt(r)) = key }

\* A metric of an item, 0 when the item does not carry it.
MetricAt(r, m) == IF m \in DOMAIN ItemAt(r) THEN ItemAt(r)[m] ELSE 0

RECURSIVE SumOfMetric(_, _)
SumOfMetric(refs, m) ==
    IF refs = {} THEN 0
    ELSE LET r == CHOOSE x \in refs : TRUE
         IN  MetricAt(r, m) + SumOfMetric(refs \ {r}, m)

C25_WitnessLanguage ==
    /\ g_pc = "returned"
    /\ g_fn = "aggregate_metrics_by_language_feature"
    /\ Len(g_records) = 2
    /\ g_records[1].user_login # g_records[2].user_login
    /\ DOMAIN g_result = {"python:code_completion"}
    /\ g_result["python:code_completion"].user_count = 2
    /\ g_result["python:code_completion"].loc_added_sum = 16

\* No record: the empty dict.
C25_WitnessEmpty ==
    /\ g_pc = "returned"
    /\ g_records = << >>
    /\ g_result = << >>

-----------------------------------------------------------------------------
(* C26: calculate_acceptance_rate(accepted, generated) and                  *)
(* calculate_loc_acceptance_rate(added, suggested) return 0 whenever the    *)
(* denominator is 0, whatever the numerator is (no division by zero), and   *)
(* otherwise numerator / denominator * 100.                                 *)

\* C26: the call never raises; with denominator 0 it returns 0, otherwise
\* the number x with x * denominator = numerator * 100.
C26_RateOrZero ==
    /\ r_pc # "raised"
    /\ r_pc = "returned" =>
           /\ r_result.den > 0
           /\ IF r_den = 0
              THEN r_result.num = 0
              ELSE r_result.num * r_den = r_num * 100 * r_result.den

\* 100 of 0 gives 0.
C26_Witness ==
    /\ r_pc = "returned"
    /\ r_fn = "calculate_acceptance_rate"
    /\ r_num = 100
    /\ r_den = 0
    /\ r_result = ZeroFloat

\* 50 of 200 gives 25, for calculate_loc_acceptance_rate.
C26_WitnessQuarter ==
    /\ r_pc = "returned"
    /\ r_fn = "calculate_loc_acceptance_rate"
    /\ r_num = 50
    /\ r_den = 200
    /\ r_result = [raised |-> FALSE, num |-> 25, den |-> 1]

\* 75 of 100 gives 75, 0 of 100 gives 0.
C26_WitnessExamples ==
    /\ r_pc = "returned"
    /\ r_den = 100
    /\ \/ r_num = 75 /\ r_result = [raised |-> FALSE, num |-> 75, den |-> 1]
       \/ r_num = 0 /\ r_result = ZeroFloat

-----------------------------------------------------------------------------
(* C27: match_deployments_to_workflow_run matches a deployment only if its  *)
(* creator equals the run's actor and it was created within 5 minutes after *)
(* the workflow run: a deployment created before the run's created_at is    *)
(* never matched.                                                           *)

\* C27: every deployment returned has the run's actor as creator and was
\* created at or after the run, less than 300 s after it.
C27_MatchedOnlyAfterRun ==
    m_pc = "returned" =>
        \A j \in 1..Len(m_matched) :
            /\ m_matched[j].creator = m_run.actor
            /\ GapSeconds(m_matched[j], m_run) >= 0
            /\ GapSeconds(m_matched[j], m_run) < MATCH_WINDOW

\* What the code guarantees of a returned deployment: the creator, and a gap
\* below 300 s on either side of the run.
C27_MatchedWithinWindowEitherSide ==
    m_pc = "returned" =>
        \A j \in 1..Len(m_matched) :
            /\ m_matched[j].creator = m_run.actor
            /\ GapSeconds(m_matched[j], m_run) > 0 - MATCH_WINDOW
            /\ GapSeconds(m_matched[j], m_run) < MATCH_WINDOW

\* A deployment created 299 s before the run of its creator is returned.
C27_WitnessBefore ==
    /\ m_pc = "returned"
    /\ Len(m_matched) = 1
    /\ m_matched[1].creator = m_run.actor
    /\ GapSeconds(m_matched[1], m_run) = 0 - 299

-----------------------------------------------------------------------------
(* C28: one call of github_api_get issues at most max_retries HTTP requests *)
(* in total, rate-limit responses included, and therefore ends (with a body *)
(* or an empty result) for every sequence of server responses, even when    *)
(* the server answers every request with an exhausted-quota 403.            *)

IsServerResponse(e) == e.ev = "request" /\ e.kind # "network_error"

\* C28: there are never more than max_retries requests in the log, one per
\* attempt; a call that got only server responses does not raise, and what
\* it returns is the body or the empty result.
C28_AtMostMaxRetriesRequests ==
    /\ CountOf(a_log, IsRequest) <= max_retries
    /\ a_pc = "loop" => CountOf(a_log, IsRequest) = a_attempt
    /\ a_pc = "raised" => ~IsServerResponse(a_log[Len(a_log)])
    /\ a_pc = "returned" => a_result \in {ApiBody, ApiEmpty}

\* Under SpecApiFair the call ends.
C28_CallEnds == <>(a_pc \in {"returned", "raised"})

\* Every request was answered by a rate-limit 403: after max_retries of them
\* the call returned the empty result.
C28_Witness ==
    /\ GaveUp
    /\ CountOf(a_log, IsRequest) = max_retries
    /\ CountOf(a_log, IsRateLimit) = max_retries

-----------------------------------------------------------------------------
(* C29: matching is many-to-many over the whole run of the tool: a          *)
(* deployment is never consumed by a match, so a deployment within 300      *)
(* seconds of two runs of the same actor appears in a row of each of them,  *)
(* and the number of rows of a repository is the sum over its in-window     *)
(* runs r of max(N_r, 1), N_r the number of deployments matched to r.       *)

DeploymentById(id) == CHOOSE d \in MainDeployments : d.id = id

\* The deployments of the repository as the server listed them.
ListedDeployments ==
    [j \in 1..Len(deps_listed) |-> DeploymentById(deps_listed[j])]

\* The deployment was created by the actor of the run, less than 300 s from
\* it.
CloseTo(dep, run) ==
    /\ dep.creator = run.actor
    /\ strptime(dep.created_at) - strptime(run.created_at) < 300
    /\ strptime(run.created_at) - strptime(dep.created_at) < 300

RECURSIVE RowsDue(_)
\* The sum over the first n runs of max(N_r, 1).
RowsDue(n) ==
    IF n = 0 THEN 0
    ELSE RowsDue(n - 1)
             + Max(MatchedCount(workflow_runs[n], ListedDeployments), 1)

BetweenRuns == pc = "next_run"

-----------------------------------------------------------------------------
(* C30: the report file is written at most once, and only after every       *)
(* repository and every run has been processed: when a fetch raises an      *)
(* uncaught error (or the run is interrupted) before the last repository is *)
(* finished, no report file is written, and the rows already assembled for  *)
(* earlier repositories are lost.                                           *)

\* C30: the file exists only once main is done, all repositories gone
\* through, and holds all the rows; at any point before that, and after an
\* uncaught error, there is no file.
C30_ReportWrittenOnlyAtTheEnd ==
    /\ csv_file.exists =>
           /\ pc = "done"
           /\ repo_i = Len(repos)
           /\ csv_file.rows = writerows(report_rows)
    /\ pc # "done" => csv_file = [exists |-> FALSE, rows |-> << >>]
    /\ pc = "aborted" => ~csv_file.exists

\* The first repository gave a row, the listing of the runs of the second
\* raised: main is over, and there is no file.
C30_Witness ==
    /\ pc = "aborted"
    /\ Len(repos) = 2
    /\ repo_i = 2
    /\ failed_fetch.endpoint = "workflow_runs"
    /\ Len(report_rows) >= 1
    /\ row_trace[1].repo = 1
    /\ ~csv_file.exists

\* Both repositories were processed: the file holds the rows of both.
C30_WitnessWritten ==
    /\ pc = "done"
    /\ csv_file.exists
    /\ Len(csv_file.rows) = 2
    /\ row_trace[1].repo = 1
    /\ row_trace[2].repo = 2

====
